---- MODULE Spec2Model ----
(***************************************************************************)
(* A model of memory-mcp: the ingestion staging queue and its worker       *)
(* (server.py), the ingestion pipeline (db.py), the System Primer          *)
(* synthesizer (tools/context.py) and the tools that read and rewrite the  *)
(* memory store (tools/search.py, tools/crud.py, tools/admin_tools.py).    *)
(*                                                                         *)
(* Conventions.  A text is a sequence of one-character strings.  A memory  *)
(* id is the sequence <<"#">> \o normalized text (uuid5 is taken to be     *)
(* injective on the normalized text).  A category path is a sequence of    *)
(* labels.  Timestamps are integers read from the clock `now`.  SQL NULL   *)
(* is NoId for ids, NoTime for timestamps, NoTtl for ttl_days, NoErr for   *)
(* the error column.  Similarities and thresholds are in percent.          *)
(***************************************************************************)
EXTENDS Integers, Sequences, FiniteSets, TLC

\* ------------------------------------------------------------------------
\* Bounds of the model
\* ------------------------------------------------------------------------
MaxJobs == 2
MaxCrashes == 1
MaxTime == 1
MaxToolCalls == 2
MaxPipeJobs == 3
MaxTtlJobs == 1
MaxClockHours == 1800
ClockJump == 360
MaxSections == 6
MaxClientCalls == 1

\* ------------------------------------------------------------------------
\* Program constants
\* ------------------------------------------------------------------------
DUP_THRESHOLD == 95
CONFLICT_THRESHOLD == 55
RELATES_TO_THRESHOLD == 65
CHUNK_BATCH_SIZE == 10
RELATES_LIMIT == 6
ERROR_MAX_CHARS == 1000
DEFAULT_SEARCH_LIMIT == 10
FETCH_MAX_DEPTH == 200
MAX_CONCURRENT_API_CALLS == 5
MAX_MEMORIZE_TEXT_LENGTH == 500000
MIN_SECTION_LENGTH == 100
OPENAI_MAX_RETRIES == 5
CONTEXT_MAX_VALUE_LENGTH == 50000
CONTEXT_MAX_KEY_LENGTH == 200
CONTEXT_MAX_TTL_HOURS == 720
TRACE_MAX_GENERATION == 100
HOURS_PER_DAY == 24
HARD_DELETE_DAYS == 30
STAGING_RETENTION_DAYS == 7

NoId == <<>>
NoTime == 0 - 1
NoTtl == 0 - 1
NoErr == 0 - 1
NoJob == 0

Workers == {"w1", "w2"}

Min(a, b) == IF a <= b THEN a ELSE b

Abs(x) == IF x < 0 THEN 0 - x ELSE x

\* ------------------------------------------------------------------------
\* utils.py: identity and normalization
\* ------------------------------------------------------------------------
\* str.lower() on one character.
Lower(c) ==
    CASE c = "A" -> "a"
      [] c = "B" -> "b"
      [] c = "C" -> "c"
      [] OTHER -> c

\* " ".join(text.strip().split()).lower(): drop leading and trailing
\* whitespace, collapse every inner whitespace run to one blank, lowercase.
RECURSIVE NormalizeFrom(_, _, _)
NormalizeFrom(s, acc, gap) ==
    IF s = <<>> THEN acc
    ELSE IF Head(s) = " " THEN NormalizeFrom(Tail(s), acc, TRUE)
    ELSE NormalizeFrom(Tail(s),
                       IF gap /\ acc # <<>>
                       THEN acc \o <<" ", Lower(Head(s))>>
                       ELSE Append(acc, Lower(Head(s))),
                       FALSE)

Normalize(text) == NormalizeFrom(text, <<>>, FALSE)

\* generate_deterministic_id: uuid5 over the normalized text.
generate_deterministic_id(text) == <<"#">> \o Normalize(text)

\* ------------------------------------------------------------------------
\* llm.py: embed() and the cosine similarity the store computes
\* ------------------------------------------------------------------------
\* The embedding model places a text on a line; the position of a text is
\* the sum of the positions of its characters.  1 - cosine distance is
\* modelled as 100 - |distance| percent.
CharPos(c) ==
    CASE c = "a" -> 0
      [] c = "A" -> 1
      [] c = "b" -> 3
      [] c = "c" -> 30
      [] c = "d" -> 80
      [] c = "e" -> 150
      [] c = "P" -> 200
      [] OTHER -> 0

RECURSIVE embed(_)
embed(text) == IF text = <<>> THEN 0 ELSE CharPos(Head(text)) + embed(Tail(text))

Similarity(v1, v2) == 100 - Abs(v1 - v2)

\* ------------------------------------------------------------------------
\* Category paths (ltree)
\* ------------------------------------------------------------------------
PrimerPath == <<"reference", "system", "primer">>
UnknownPath == <<"reference", "unknown">>

\* p <@ anc : p is anc or a descendant of anc.
IsDescendant(p, anc) == Len(anc) <= Len(p) /\ SubSeq(p, 1, Len(anc)) = anc

\* is_profile_path: category_path.startswith("profile").
is_profile_path(p) == p # <<>> /\ p[1] \in {"profile"}

\* ------------------------------------------------------------------------
\* utils.py: sanitize_ltree_path (a path is a sequence of labels)
\* ------------------------------------------------------------------------
\* sanitize_ltree_label on the labels of the model: lowercase, and
\* "unknown" for a label with no letter, digit or underscore left.
sanitize_ltree_label(l) ==
    CASE l = "User" -> "user"
      [] l = "Misc" -> "misc"
      [] l = "-" -> "unknown"
      [] OTHER -> l

RECURSIVE SanitizeLabels(_)
SanitizeLabels(path) ==
    IF path = <<>> THEN <<>>
    ELSE (IF Head(path) = "" THEN <<>> ELSE <<sanitize_ltree_label(Head(path))>>)
            \o SanitizeLabels(Tail(path))

sanitize_ltree_path(path) ==
    LET sanitized == SanitizeLabels(path)
        rooted == IF sanitized # <<>> /\ sanitized[1] = "user"
                  THEN <<"profile">> \o Tail(sanitized) ELSE sanitized
        cut == SubSeq(rooted, 1, Min(Len(rooted), 6))
    IN IF cut = <<>> THEN UnknownPath ELSE cut

\* ------------------------------------------------------------------------
\* Inputs from the outside: texts, model outputs
\* ------------------------------------------------------------------------
\* Paragraphs a document can be made of.  " A" normalizes to "a".
Ta == <<"a">>
TA == <<" ", "A">>
Tb == <<"b">>
Tc == <<"c">>
Td == <<"d">>
Te == <<"e">>

\* The whole text of a document (a sequence of paragraphs).
RECURSIVE FullText(_)
FullText(doc) ==
    IF doc = <<>> THEN <<>>
    ELSE IF Len(doc) = 1 THEN doc[1]
    ELSE doc[1] \o <<" ">> \o FullText(Tail(doc))

\* Category paths the model assigns to sections (<<>>: none given).
SectionCats == {<<"profile">>, <<"concepts">>}

\* Length of str(exception) for a failed provider call.
LlmErrLens == {1000, 2500}
\* len("No sections produced from input text")
NoSectionsErrLen == 36

\* Prose summarize_user_profile can return.
UserContexts == {<<"u">>, <<"v">>}

Tasks == Workers \cup {"bg1", "bg2", "tool", "ttl"}

\* The startup primer task of the process that runs worker w.
BgTask(w) == IF w = "w1" THEN "bg1" ELSE "bg2"

\* ------------------------------------------------------------------------
\* State
\* ------------------------------------------------------------------------
VARIABLES
    now,          \* the clock: NOW() and _now()
    jobs,         \* ingestion_staging, in insertion order; job_id = index
    wpc,          \* worker -> position in _ingestion_worker
    wjob,         \* worker -> job_id it holds
    wsel,         \* worker -> job_id row-locked by its claim statement
    crashes,      \* how many times a process was stopped
    memories,     \* the memories table: a set of rows
    edges,        \* the memory_edges table: a set of <<source, target, relation>>
    primer_cache, \* the primer_cache row 'user_context', <<"-">> when absent
    psections,    \* worker -> sections of the running pipeline
    pdata,        \* worker -> section_data gathered so far (index -> result)
    ploop,        \* worker -> the pipeline's now, batch_start, first_id, prev_id
    perr,         \* worker -> length of the message of the raised exception
    suplog,       \* history: the supersessions of the last committed batch
    runlog,       \* history: the last two pipeline runs that returned
    spc,          \* task -> position in synthesize_system_primer
    sprofile,     \* task -> the profile_changed argument
    sprimer,      \* task -> primer_content built
    snow,         \* task -> now = _now() read before the transaction
    sold,         \* task -> old_primers read inside the transaction
    toolcalls,    \* number of tool calls made so far
    lastread,     \* the result of the last read tool
    response,     \* what the last call of a validating tool returned
    context_store,\* the context_store table: a set of rows
    ttl_last,     \* history: the time of the last tick of the TTL daemon that ran through
    api_waiting,  \* section tasks of the running pipeline not yet in the semaphore
    api_semaphore,\* permits held of the running pipeline's api_semaphore
    inflight,     \* call site -> provider calls in flight
    retry,        \* the run of _with_retries under way: position, attempt, calls made
    gather        \* the section sub-tasks of a pipeline call, db_lock, the connection

vars == <<now, jobs, wpc, wjob, wsel, crashes, memories, edges, primer_cache,
          psections, pdata, ploop, perr, suplog, runlog, spc, sprofile, sprimer, snow,
          sold, toolcalls, lastread, response, context_store, ttl_last,
          api_waiting, api_semaphore, inflight, retry, gather>>

queue_vars == <<jobs, wpc, wjob, wsel, crashes>>
store_vars == <<memories, edges, primer_cache>>
hist_vars == <<suplog, runlog>>
pipe_vars == <<psections, pdata, ploop, perr, hist_vars>>
synth_vars == <<spc, sprofile, sprimer, snow, sold>>
ctx_vars == <<context_store, ttl_last>>
api_vars == <<api_waiting, api_semaphore, inflight, retry, gather>>
ext_vars == <<response, ctx_vars, api_vars>>
tool_vars == <<toolcalls, lastread, ext_vars>>

\* The places where the program calls the LLM provider.
CallSites == {"segment", "section", "arbitrate", "search", "update", "primer"}
NoWaiting == [section |-> 0, arbitrate |-> 0]

NoResponse == [tool |-> "none", ok |-> TRUE, error |-> "none", job_id |-> NoJob]

\* An exception without a status_code attribute.
NoStatus == 0
NoOutcome == [ok |-> TRUE, status_code |-> NoStatus, value |-> "none"]
NoRetry == [pc |-> "idle", max_retries |-> 0, attempt |-> 0, log |-> <<>>, sleeps |-> 0,
            result |-> NoOutcome]

\* No pipeline call under way: the connection is in the pool.
NoGather == [run |-> "idle", pc |-> <<>>, db_lock |-> 0, conn |-> "pooled", ops |-> {},
             written |-> 0]

\* What a tool returns: {"ok": False, "error": ...} or {"ok": True, ...}.
Failed(tool, error) == [tool |-> tool, ok |-> FALSE, error |-> error, job_id |-> NoJob]
Succeeded(tool) == [tool |-> tool, ok |-> TRUE, error |-> "none", job_id |-> NoJob]

NoCache == <<"-">>
\* inactive is history: the returned ids whose rows were not active when read.
\* count is the number of entries returned, out what the tool made of them
\* (fetch_document: the unified text; trace_history: the created_at column).
NoRead == [op |-> "none", ids |-> {}, inactive |-> {}, count |-> 0, out |-> <<>>]
NoLoop == [now |-> NoTime, batch_start |-> 0, first_id |-> NoId, prev_id |-> NoId,
           added |-> {}, chained |-> {}]

JobIds == 1..Len(jobs)

Init ==
    /\ now = 0
    /\ jobs = <<>>
    /\ wpc = [w \in Workers |-> "stopped"]
    /\ wjob = [w \in Workers |-> NoJob]
    /\ wsel = [w \in Workers |-> NoJob]
    /\ crashes = 0
    /\ memories = {}
    /\ edges = {}
    /\ primer_cache = NoCache
    /\ psections = [w \in Workers |-> <<>>]
    /\ pdata = [w \in Workers |-> <<>>]
    /\ ploop = [w \in Workers |-> NoLoop]
    /\ perr = [w \in Workers |-> NoErr]
    /\ suplog = <<>>
    /\ runlog = <<>>
    /\ spc = [t \in Tasks |-> "idle"]
    /\ sprofile = [t \in Tasks |-> FALSE]
    /\ sprimer = [t \in Tasks |-> <<>>]
    /\ snow = [t \in Tasks |-> NoTime]
    /\ sold = [t \in Tasks |-> {}]
    /\ toolcalls = 0
    /\ lastread = NoRead
    /\ response = NoResponse
    /\ context_store = {}
    /\ ttl_last = NoTime
    /\ api_waiting = NoWaiting
    /\ api_semaphore = 0
    /\ inflight = [c \in CallSites |-> 0]
    /\ retry = NoRetry
    /\ gather = NoGather

\* Time passes.
Tick ==
    /\ now < MaxTime
    /\ now' = now + 1
    /\ UNCHANGED <<queue_vars, store_vars, pipe_vars, synth_vars, tool_vars>>

\* ------------------------------------------------------------------------
\* tools/ingestion.py: memorize_context
\* ------------------------------------------------------------------------
\* not text or not text.strip()
IsBlank(text) == \A i \in 1..Len(text) : text[i] = " "

\* A call that is never refused.
Refusal_none(text, ttl_days) == "none"

\* The error memorize_context returns for its arguments, "none" if it
\* accepts them.
Refusal(text, ttl_days) ==
    IF IsBlank(text) THEN "text must be a non-empty string"
    ELSE IF Len(text) > MAX_MEMORIZE_TEXT_LENGTH
    THEN "text exceeds maximum allowed length"
    ELSE IF ttl_days # NoTtl /\ ttl_days < 1 THEN "ttl_days must be a positive integer"
    ELSE "none"

\* text is the document as its paragraphs; the tool gets them as one text.
memorize_context(text, ttl_days) ==
    /\ UNCHANGED <<now, wpc, wjob, wsel, crashes, store_vars, pipe_vars,
                   synth_vars, toolcalls, lastread, ctx_vars, api_vars>>
    /\ IF Refusal(FullText(text), ttl_days) # "none"
       THEN /\ response' = Failed("memorize_context", Refusal(FullText(text), ttl_days))
            /\ UNCHANGED jobs
       ELSE /\ jobs' = Append(jobs, [raw_text |-> text, ttl_days |-> ttl_days,
                                     status |-> "pending", created_at |-> now,
                                     error |-> NoErr, claims |-> 0, runs |-> 0,
                                     last_run |-> "none"])
            /\ response' = [Succeeded("memorize_context") EXCEPT !.job_id = Len(jobs) + 1]

\* ------------------------------------------------------------------------
\* server.py: _ingestion_worker
\* ------------------------------------------------------------------------
\* A startup that resets nothing.
ResetStale_none(js) == js

\* UPDATE ingestion_staging SET status = 'pending' WHERE status = 'processing'
ResetStale(js) ==
    [j \in DOMAIN js |->
        IF js[j].status = "processing" THEN [js[j] EXCEPT !.status = "pending", !.claims = 0]
        ELSE js[j]]

ingestion_worker_reset(w) ==
    /\ wpc[w] = "startup"
    /\ jobs' = ResetStale(jobs)
    /\ wpc' = [wpc EXCEPT ![w] = "poll"]
    /\ UNCHANGED <<now, wjob, wsel, crashes, store_vars, pipe_vars, synth_vars,
                   tool_vars>>

\* Rows the claim's sub-select may lock: pending and, FOR UPDATE SKIP LOCKED,
\* not row-locked by another session.
LockedByOther(w, j) == \E o \in Workers \ {w} : wsel[o] = j

\* The sub-select without SKIP LOCKED and without waiting for the lock.
Claimable_nolock(w) == {j \in JobIds : jobs[j].status = "pending"}

Claimable(w) == {j \in JobIds : jobs[j].status = "pending" /\ ~LockedByOther(w, j)}

\* LIMIT 1 without the ORDER BY.
EarliestOf_any(cands) == cands

\* ORDER BY created_at ASC LIMIT 1 over the candidate rows.
EarliestOf(cands) ==
    {j \in cands : \A k \in cands : jobs[j].created_at <= jobs[k].created_at}

\* The sub-select of the claim statement takes the row lock ...
ingestion_worker_claim_select(w) ==
    /\ wpc[w] = "poll"
    /\ \E j \in EarliestOf(Claimable(w)) :
          /\ wsel' = [wsel EXCEPT ![w] = j]
          /\ wpc' = [wpc EXCEPT ![w] = "locking"]
    /\ UNCHANGED <<now, jobs, wjob, crashes, store_vars, pipe_vars, synth_vars,
                   tool_vars>>

\* ... and the UPDATE sets status = 'processing', RETURNING the row; the
\* statement's transaction commits and the lock is gone.
ingestion_worker_claim_update(w) ==
    /\ wpc[w] = "locking"
    /\ LET j == wsel[w] IN
          /\ jobs' = [jobs EXCEPT ![j].status = "processing",
                                  ![j].claims = @ + 1,
                                  ![j].last_run = "none"]
          /\ wjob' = [wjob EXCEPT ![w] = j]
    /\ wsel' = [wsel EXCEPT ![w] = NoJob]
    /\ wpc' = [wpc EXCEPT ![w] = "claimed"]
    /\ UNCHANGED <<now, crashes, store_vars, pipe_vars, synth_vars, tool_vars>>

\* ------------------------------------------------------------------------
\* The memories table
\* ------------------------------------------------------------------------
\* supersedes_id IS NULL AND archived_at IS NULL
IsActive(m) == m.supersedes_id = NoId /\ m.archived_at = NoTime

ActiveMemories(mem) == {m \in mem : IsActive(m)}

HasId(mem, id) == \E m \in mem : m.id = id

RowOf(mem, id) == CHOOSE m \in mem : m.id = id

NewRow(id, content, cat, ttl, t) ==
    [id |-> id, content |-> content, category_path |-> cat,
     supersedes_id |-> NoId, archived_at |-> NoTime, ttl_days |-> ttl,
     created_at |-> t, updated_at |-> t, last_accessed_at |-> t]

\* ------------------------------------------------------------------------
\* llm.py: extract_semantic_sections, evaluate_conflict
\* ------------------------------------------------------------------------
\* The sections the model can cut a document into: one per paragraph, long
\* enough and filed under one of cats, or too short (length is
\* len(content.strip()) of the text a paragraph stands for).
RECURSIVE ModelSections(_, _)
ModelSections(doc, cats) ==
    IF doc = <<>> THEN {<<>>}
    ELSE LET long == {[content |-> Head(doc), category_path |-> c,
                       tags |-> <<>>, volatility_class |-> "low",
                       length |-> MIN_SECTION_LENGTH] : c \in cats}
             short == {[content |-> Head(doc), category_path |-> <<>>,
                        tags |-> <<>>, volatility_class |-> "low",
                        length |-> MIN_SECTION_LENGTH - 1]}
         IN {<<x>> \o r : x \in long \cup short, r \in ModelSections(Tail(doc), cats)}

\* How a call of the model can end in the except branch: _with_retries
\* raised after the last attempt, or at once on a status that is not
\* retried, or the answer could not be parsed.
SegmenterFailures == {"retries exhausted", "not retryable", "unparsable"}

\* What the call of the model can come to: a failure, or a parsed answer
\* with a list of sections (maybe empty).
ModelResponses(doc, cats) ==
    {[failure |-> f, sections |-> <<>>] : f \in SegmenterFailures}
        \cup {[failure |-> "none", sections |-> x] :
                x \in {<<>>} \cup ModelSections(doc, cats)}

\* No fallback: an empty list.
FallbackSections_none(doc) == <<>>

FallbackSections(doc) ==
    <<[content |-> FullText(doc), category_path |-> UnknownPath,
       tags |-> <<>>, volatility_class |-> "low"]>>

\* A filter that lets every section through.
LengthFiltered_all(sections) == sections

\* [s for s in sections if len(s["content"].strip()) >= MIN_SECTION_LENGTH]
LengthFiltered(sections) ==
    SelectSeq(sections, LAMBDA x : x.length >= MIN_SECTION_LENGTH)

\* s["category_path"] = sanitize_ltree_path(s.get("category_path") or
\* "reference.unknown"), for every section.
PathsSanitized(sections) ==
    [i \in 1..Len(sections) |->
        [content |-> sections[i].content,
         category_path |-> sanitize_ltree_path(sections[i].category_path),
         tags |-> sections[i].tags,
         volatility_class |-> sections[i].volatility_class]]

\* What extract_semantic_sections returns for a document, given what the
\* call of the model came to: the fallback (the call failed, or the model
\* returned no sections), or the sections of the model, their paths
\* sanitized, that pass the length filter.
extract_semantic_sections(doc, answer) ==
    IF answer.failure # "none" \/ answer.sections = <<>>
    THEN FallbackSections(doc)
    ELSE PathsSanitized(LengthFiltered(answer.sections))

\* What evaluate_conflict can return as updated_text: the old text, the new
\* text (also the fallback on a failed call), or a text merging both.
evaluate_conflict(old_text, new_text) ==
    {old_text, new_text, old_text \o <<" ">> \o new_text}

\* ------------------------------------------------------------------------
\* db.py: process_and_insert_memory, Step 3 (process_section)
\* ------------------------------------------------------------------------
\* of_active and near_active are history: whether the row a section was
\* found to duplicate, and the nearest neighbour selected for it, were
\* active when the section was classified.
Todo == [state |-> "todo", id |-> NoId, exists |-> FALSE, duplicate_of |-> NoId,
         chunk |-> <<>>, cat_path |-> <<>>, supersedes |-> NoId,
         of_active |-> TRUE, near_active |-> TRUE]

\* SELECT 1 FROM memories WHERE id = $1
ChunkExists(mem, chunk_id) == HasId(mem, chunk_id)

\* The rows the neighbour query ranges over.
NeighbourCandidates(mem, chunk_path) ==
    {m \in mem : IsActive(m) /\ IsDescendant(m.category_path, chunk_path)}

\* LIMIT 1 without the ORDER BY: any candidate.
Nearest_any(mem, vec, chunk_path) == NeighbourCandidates(mem, chunk_path)

\* ORDER BY embedding <=> $1 LIMIT 1: the rows at the least distance.
Nearest(mem, vec, chunk_path) ==
    LET cands == NeighbourCandidates(mem, chunk_path) IN
    {m \in cands : \A o \in cands :
        Similarity(embed(m.content), vec) >= Similarity(embed(o.content), vec)}

DuplicateResult(chunk_id, of, of_row, near_row) ==
    [state |-> "done", id |-> chunk_id, exists |-> TRUE, duplicate_of |-> of,
     chunk |-> <<>>, cat_path |-> <<>>, supersedes |-> NoId,
     of_active |-> IsActive(of_row), near_active |-> IsActive(near_row)]

InsertResult(id, text, cat, old, near_row) ==
    [state |-> "done", id |-> id, exists |-> FALSE, duplicate_of |-> NoId,
     chunk |-> text, cat_path |-> cat, supersedes |-> old,
     of_active |-> TRUE, near_active |-> IsActive(near_row)]

\* Stands for "no row" where a row is expected.
NoRow == NewRow(NoId, <<>>, <<>>, NoTtl, NoTime)

\* The results process_section can return for a section against the store.
process_section(mem, section) ==
    LET chunk_id == generate_deterministic_id(section.content)
        vec == embed(section.content)
        near == Nearest(mem, vec, section.category_path)
    IN
    IF ChunkExists(mem, chunk_id)
    THEN {DuplicateResult(chunk_id, chunk_id, RowOf(mem, chunk_id), NoRow)}
    ELSE IF near = {}
    THEN {InsertResult(chunk_id, section.content, section.category_path, NoId, NoRow)}
    ELSE UNION {
        LET similarity == Similarity(embed(similar_mem.content), vec) IN
        IF similarity > DUP_THRESHOLD
        THEN {DuplicateResult(chunk_id, similar_mem.id, similar_mem, similar_mem)}
        ELSE IF CONFLICT_THRESHOLD <= similarity /\ similarity <= DUP_THRESHOLD
        THEN {InsertResult(generate_deterministic_id(final_text), final_text,
                           section.category_path, similar_mem.id, similar_mem) :
                final_text \in evaluate_conflict(similar_mem.content, section.content)}
        ELSE {InsertResult(chunk_id, section.content, section.category_path, NoId,
                           similar_mem)}
        : similar_mem \in near}

\* ------------------------------------------------------------------------
\* db.py: process_and_insert_memory, Step 4 (one batch = one transaction)
\* ------------------------------------------------------------------------
\* INSERT INTO memories ... ON CONFLICT (id) DO UPDATE SET updated_at
UpsertMemory(mem, id, content, cat, ttl, t) ==
    IF HasId(mem, id)
    THEN {IF m.id = id THEN [m EXCEPT !.updated_at = t] ELSE m : m \in mem}
    ELSE mem \cup {NewRow(id, content, cat, ttl, t)}

\* UPDATE memories SET supersedes_id = $1, updated_at = $2 WHERE id = $3
SetSuperseded(mem, new_id, t, old_id) ==
    {IF m.id = old_id THEN [m EXCEPT !.supersedes_id = new_id, !.updated_at = t]
     ELSE m : m \in mem}

\* The three edge statements of a supersession, in order: copy the edges
\* leaving old, copy the edges entering old (seeing the rows just
\* inserted), delete every edge touching old.
RedirectEdges(edg, new_id, old_id) ==
    LET e1 == edg \cup {<<new_id, e[2], e[3]>> : e \in {x \in edg : x[1] = old_id}}
        e2 == e1 \cup {<<e[1], new_id, e[3]>> : e \in {x \in e1 : x[2] = old_id}}
    IN {e \in e2 : e[1] # old_id /\ e[2] # old_id}

\* The rows the relates_to statement selects from, before ORDER BY / LIMIT.
RelatesToCandidates(mem, insert_id, vec, cat) ==
    {m \in mem : /\ m.id # insert_id
                 /\ IsActive(m)
                 /\ \/ m.category_path = cat
                    \/ Similarity(embed(m.content), vec) > RELATES_TO_THRESHOLD}

\* ORDER BY similarity DESC LIMIT 6 (ties broken as the store happens to).
RECURSIVE TopBySimilarity(_, _, _)
TopBySimilarity(cands, vec, k) ==
    IF k = 0 \/ cands = {} THEN {}
    ELSE LET best == CHOOSE m \in cands : \A o \in cands :
                        Similarity(embed(m.content), vec) >= Similarity(embed(o.content), vec)
         IN {best} \cup TopBySimilarity(cands \ {best}, vec, k - 1)

RelatesToEdges(mem, insert_id, vec, cat) ==
    {<<insert_id, m.id, "relates_to">> :
        m \in TopBySimilarity(RelatesToCandidates(mem, insert_id, vec, cat), vec, RELATES_LIMIT)}

\* An edge from the section just inserted back to the one before it.
SequenceEdge_reversed(prev_id, effective_id) == <<effective_id, prev_id, "sequence_next">>

\* INSERT INTO memory_edges ... VALUES (prev_id, effective_id, 'sequence_next')
SequenceEdge(prev_id, effective_id) == <<prev_id, effective_id, "sequence_next">>

\* The body of the loop over the items of a batch.  st carries the tables as
\* the open transaction sees them, first_id, prev_id, the ids of the rows
\* this run inserted, the edges its sequence_next statement inserted, a log
\* of the supersessions made, and whether a statement failed on a foreign
\* key.
PersistItem(st, item, ttl, t) ==
    LET effective_id == IF item.exists THEN item.duplicate_of ELSE item.id
        first == IF st.first_id = NoId THEN effective_id ELSE st.first_id
    IN
    IF ~item.exists
    THEN
        LET insert_id == item.id
            m1 == UpsertMemory(st.mem, insert_id, item.chunk, item.cat_path, ttl, t)
            sup == item.supersedes # NoId
            m2 == IF sup THEN SetSuperseded(m1, insert_id, t, item.supersedes) ELSE m1
            e2 == IF sup THEN RedirectEdges(st.edg, insert_id, item.supersedes) ELSE st.edg
            e3 == e2 \cup RelatesToEdges(m2, insert_id, embed(item.chunk), item.cat_path)
            seq == st.prev_id # NoId /\ st.prev_id # effective_id
            e4 == IF seq THEN e3 \cup {SequenceEdge(st.prev_id, effective_id)} ELSE e3
            entry == [old |-> item.supersedes, new |-> insert_id,
                      edges_before |-> st.edg, edges_after |-> e4,
                      rows_after |-> {m \in m2 : m.id \in {item.supersedes, insert_id}}]
        IN [mem |-> m2, edg |-> e4, first_id |-> first, prev_id |-> effective_id,
            added |-> IF HasId(st.mem, insert_id) THEN st.added
                      ELSE st.added \cup {insert_id},
            chained |-> IF seq THEN st.chained \cup {SequenceEdge(st.prev_id, effective_id)}
                        ELSE st.chained,
            log |-> IF sup THEN Append(st.log, entry) ELSE st.log,
            fk_error |-> st.fk_error \/ (seq /\ ~HasId(m2, st.prev_id))]
    ELSE
        \* UPDATE memories SET last_accessed_at = $1 WHERE id = $2
        [st EXCEPT !.mem = {IF m.id = effective_id THEN [m EXCEPT !.last_accessed_at = t]
                            ELSE m : m \in st.mem},
                   !.first_id = first]

RECURSIVE PersistItems(_, _, _, _)
PersistItems(st, items, ttl, t) ==
    IF items = <<>> THEN st
    ELSE PersistItems(PersistItem(st, Head(items), ttl, t), Tail(items), ttl, t)

\* ------------------------------------------------------------------------
\* db.py: process_and_insert_memory as run by the worker
\* ------------------------------------------------------------------------
\* Steps 1-2: read the taxonomy, call the segmenter.
pipeline_segment(w, cats) ==
    /\ wpc[w] = "claimed"
    /\ \E answer \in ModelResponses(jobs[wjob[w]].raw_text, cats) :
          LET sections == extract_semantic_sections(jobs[wjob[w]].raw_text, answer) IN
          /\ psections' = [psections EXCEPT ![w] = sections]
          /\ pdata' = [pdata EXCEPT ![w] = [i \in 1..Len(sections) |-> Todo]]
    /\ ploop' = [ploop EXCEPT ![w] = [NoLoop EXCEPT !.now = now, !.batch_start = 1]]
    /\ jobs' = [jobs EXCEPT ![wjob[w]].runs = @ + 1]
    /\ wpc' = [wpc EXCEPT ![w] = "eval"]
    /\ UNCHANGED <<now, wjob, wsel, crashes, store_vars, perr, hist_vars,
                   synth_vars, tool_vars>>

\* The pipeline raises: control reaches the worker's except branch.
PipelineRaises(w, errlen) ==
    /\ wpc' = [wpc EXCEPT ![w] = "ran_err"]
    /\ perr' = [perr EXCEPT ![w] = errlen]
    /\ jobs' = [jobs EXCEPT ![wjob[w]].last_run = "raised"]

\* Step 3: one section sub-task runs process_section; its embed call may fail.
pipeline_section(w, errlens) ==
    /\ wpc[w] = "eval"
    /\ \E i \in 1..Len(pdata[w]) :
          /\ pdata[w][i].state = "todo"
          /\ \/ /\ \E r \in process_section(memories, psections[w][i]) :
                      pdata' = [pdata EXCEPT ![w][i] = r]
                /\ UNCHANGED <<wpc, perr, jobs>>
             \/ /\ ~ChunkExists(memories, generate_deterministic_id(psections[w][i].content))
                /\ \E errlen \in errlens : PipelineRaises(w, errlen)
                /\ UNCHANGED pdata
    /\ UNCHANGED <<now, wjob, wsel, crashes, store_vars, psections, ploop,
                   hist_vars, synth_vars, tool_vars>>

AllGathered(w) == \A i \in 1..Len(pdata[w]) : pdata[w][i].state = "done"

\* profile_changed as computed at the end of the pipeline: the segmenter's
\* section dicts carry no "exists" key, so every section counts.
ProfileChanged(sections) ==
    \E i \in 1..Len(sections) : is_profile_path(sections[i].category_path)

\* Step 4: one batch, in one transaction; after the last batch Step 5 starts.
pipeline_persist(w) ==
    /\ wpc[w] = "eval"
    /\ AllGathered(w)
    /\ ploop[w].batch_start <= Len(pdata[w])
    /\ LET from == ploop[w].batch_start
           to == Min(from + CHUNK_BATCH_SIZE - 1, Len(pdata[w]))
           st0 == [mem |-> memories, edg |-> edges, first_id |-> ploop[w].first_id,
                   prev_id |-> ploop[w].prev_id, added |-> ploop[w].added,
                   chained |-> ploop[w].chained,
                   log |-> <<>>, fk_error |-> FALSE]
           st == PersistItems(st0, SubSeq(pdata[w], from, to),
                              jobs[wjob[w]].ttl_days, ploop[w].now)
       IN
       IF st.fk_error
       THEN /\ PipelineRaises(w, CHOOSE n \in LlmErrLens : TRUE)
            /\ UNCHANGED <<memories, edges, ploop, suplog, spc, sprofile>>
       ELSE /\ memories' = st.mem
            /\ edges' = st.edg
            /\ suplog' = st.log
            /\ ploop' = [ploop EXCEPT ![w] = [@ EXCEPT !.batch_start = to + 1,
                                                       !.first_id = st.first_id,
                                                       !.prev_id = st.prev_id,
                                                       !.added = st.added,
                                                       !.chained = st.chained]]
            /\ IF to = Len(pdata[w])
               THEN /\ wpc' = [wpc EXCEPT ![w] = "primer"]
                    /\ spc' = [spc EXCEPT ![w] = "build"]
                    /\ sprofile' = [sprofile EXCEPT ![w] = ProfileChanged(psections[w])]
               ELSE UNCHANGED <<wpc, spc, sprofile>>
            /\ UNCHANGED <<perr, jobs>>
    /\ UNCHANGED <<now, wjob, wsel, crashes, primer_cache, psections, pdata,
                   runlog, sprimer, snow, sold, tool_vars>>

\* Statements that are committed one by one: what ran before the failure
\* stays.
TransactionAborted_autocommit(before, inside) == inside

\* async with conn.transaction(): an exception inside the block rolls back
\* to the tables as they were when the block was entered.
TransactionAborted(before, inside) == before

\* Step 4 with a write of item k of the batch raising (the database refuses
\* a value, the connection is lost): the items before k ran inside the
\* transaction, the exception leaves the block and the pipeline.
pipeline_persist_raises(w, errlens) ==
    /\ wpc[w] = "eval"
    /\ AllGathered(w)
    /\ ploop[w].batch_start <= Len(pdata[w])
    /\ LET from == ploop[w].batch_start
           to == Min(from + CHUNK_BATCH_SIZE - 1, Len(pdata[w]))
           st0 == [mem |-> memories, edg |-> edges, first_id |-> ploop[w].first_id,
                   prev_id |-> ploop[w].prev_id, added |-> ploop[w].added,
                   chained |-> ploop[w].chained,
                   log |-> <<>>, fk_error |-> FALSE]
       IN \E k \in from..to :
            LET st == PersistItems(st0, SubSeq(pdata[w], from, k - 1),
                                   jobs[wjob[w]].ttl_days, ploop[w].now)
                tables == TransactionAborted([mem |-> memories, edg |-> edges],
                                             [mem |-> st.mem, edg |-> st.edg])
            IN /\ memories' = tables.mem
               /\ edges' = tables.edg
    /\ \E errlen \in errlens : PipelineRaises(w, errlen)
    /\ UNCHANGED <<now, wjob, wsel, crashes, primer_cache, psections, pdata, ploop,
                   hist_vars, synth_vars, tool_vars>>

\* No section survived: first_id is None, ValueError.
pipeline_no_sections(w) ==
    /\ wpc[w] = "eval"
    /\ pdata[w] = <<>>
    /\ PipelineRaises(w, NoSectionsErrLen)
    /\ UNCHANGED <<now, wjob, wsel, crashes, store_vars, psections, pdata, ploop,
                   hist_vars, synth_vars, tool_vars>>

LastTwo(log) == IF Len(log) > 2 THEN Tail(log) ELSE log

\* Step 5 is over (synthesize_system_primer never raises): return first_id.
pipeline_return(w) ==
    /\ wpc[w] = "primer"
    /\ spc[w] = "idle"
    /\ wpc' = [wpc EXCEPT ![w] = "ran_ok"]
    /\ jobs' = [jobs EXCEPT ![wjob[w]].last_run = "returned"]
    /\ runlog' = LastTwo(Append(runlog, [text |-> jobs[wjob[w]].raw_text,
                                         sections |-> psections[w],
                                         results |-> pdata[w],
                                         added |-> ploop[w].added]))
    /\ UNCHANGED <<now, wjob, wsel, crashes, store_vars, psections, pdata, ploop,
                   perr, suplog, synth_vars, tool_vars>>

\* str(job_exc), not truncated.
ErrorText_whole(errlen) == errlen

\* str(job_exc)[:1000]
ErrorText(errlen) == Min(errlen, ERROR_MAX_CHARS)

WorkerIdle(w) ==
    /\ wpc' = [wpc EXCEPT ![w] = "poll"]
    /\ wjob' = [wjob EXCEPT ![w] = NoJob]
    /\ psections' = [psections EXCEPT ![w] = <<>>]
    /\ pdata' = [pdata EXCEPT ![w] = <<>>]
    /\ ploop' = [ploop EXCEPT ![w] = NoLoop]
    /\ perr' = [perr EXCEPT ![w] = NoErr]

\* UPDATE ingestion_staging SET status = 'complete' WHERE job_id = $1
ingestion_worker_complete(w) ==
    /\ wpc[w] = "ran_ok"
    /\ jobs' = [jobs EXCEPT ![wjob[w]].status = "complete"]
    /\ WorkerIdle(w)
    /\ UNCHANGED <<now, wsel, crashes, store_vars, hist_vars, synth_vars, tool_vars>>

\* An except branch that only logs: the job row is left as it is.
ingestion_worker_failed_logonly(w) ==
    /\ wpc[w] = "ran_err"
    /\ WorkerIdle(w)
    /\ UNCHANGED <<now, jobs, wsel, crashes, store_vars, hist_vars, synth_vars,
                   tool_vars>>

\* UPDATE ingestion_staging SET status = 'failed', error = $1 WHERE job_id = $2
ingestion_worker_failed(w) ==
    /\ wpc[w] = "ran_err"
    /\ jobs' = [jobs EXCEPT ![wjob[w]].status = "failed",
                            ![wjob[w]].error = ErrorText(perr[w])]
    /\ WorkerIdle(w)
    /\ UNCHANGED <<now, wsel, crashes, store_vars, hist_vars, synth_vars, tool_vars>>

\* ------------------------------------------------------------------------
\* tools/context.py: synthesize_system_primer
\* ------------------------------------------------------------------------
Digit == <<"0", "1", "2", "3", "4", "5", "6", "7", "8", "9">>

RECURSIVE Dec(_)
Dec(n) == IF n < 10 THEN <<Digit[n + 1]>> ELSE Dec(n \div 10) \o <<Digit[(n % 10) + 1]>>

\* The labels of the model in sorted order: L1 roots and L2 children.
RootOrder == <<"concepts", "organizations", "profile", "projects", "reference", "user">>
ChildOrder == <<"bio", "system", "unknown">>

\* SELECT category_path, COUNT(*) ... the active memories off the primer path.
PrimerCounted(mem) == {m \in ActiveMemories(mem) : m.category_path # PrimerPath}

CatRows(mem) == {m.category_path : m \in PrimerCounted(mem)}

CountUnder(mem, root) ==
    Cardinality({m \in PrimerCounted(mem) : m.category_path[1] = root})

ChildrenOf(mem, root) ==
    {p[2] : p \in {q \in CatRows(mem) : q[1] = root /\ Len(q) >= 2}}

\* _build_taxonomy_tree(cat_rows, max_depth=2, max_branch_nodes=50) on paths
\* of at most two labels: a root without children renders "root [n]", a
\* root with children renders "root/ (n)" and its child labels.
RECURSIVE RenderChildren(_, _, _)
RenderChildren(mem, root, k) ==
    IF k > Len(ChildOrder) THEN <<>>
    ELSE (IF ChildOrder[k] \in ChildrenOf(mem, root) THEN <<ChildOrder[k]>> ELSE <<>>)
            \o RenderChildren(mem, root, k + 1)

RECURSIVE RenderRoots(_, _)
RenderRoots(mem, k) ==
    IF k > Len(RootOrder) THEN <<>>
    ELSE LET root == RootOrder[k]
             n == CountUnder(mem, root)
         IN (IF n = 0 THEN <<>>
             ELSE IF ChildrenOf(mem, root) = {}
             THEN <<root, "[">> \o Dec(n) \o <<"]", " ">>
             ELSE <<root, "/", "(">> \o Dec(n) \o <<")">>
                    \o RenderChildren(mem, root, 1) \o <<" ">>)
            \o RenderRoots(mem, k + 1)

\* primer_content: the total, the number of categories, the user context
\* and the taxonomy tree inside the fixed template.
PrimerContent(mem, user_context) ==
    <<"P", " ">> \o Dec(Cardinality(PrimerCounted(mem))) \o <<" ">>
        \o Dec(Cardinality(CatRows(mem))) \o <<" ">>
        \o user_context \o <<" ">> \o RenderRoots(mem, 1)

\* get_profile_chunks
ProfileChunks(mem) ==
    {m.content : m \in {x \in ActiveMemories(mem) : IsDescendant(x.category_path, <<"profile">>)}}

\* summarize_user_profile: "" without chunks, else what the model writes
\* ("" when the call fails).
summarize_user_profile(chunks, prose) == IF chunks = {} THEN {<<>>} ELSE prose \cup {<<>>}

\* The user context synthesize_system_primer ends up with, and caches.
SynthUserContexts(mem, cache, profile_changed, prose) ==
    IF profile_changed \/ cache = NoCache
    THEN summarize_user_profile(ProfileChunks(mem), prose)
    ELSE {cache}

\* synthesize_system_primer is called.
SynthCall(t, profile_changed) ==
    /\ spc' = [spc EXCEPT ![t] = "build"]
    /\ sprofile' = [sprofile EXCEPT ![t] = profile_changed]

\* Up to the transaction: user context, counts, primer text, embedding.  A
\* failed embed call ends the synthesis (the exception is logged).
synth_build(t, prose) ==
    /\ spc[t] = "build"
    /\ \E uc \in SynthUserContexts(memories, primer_cache, sprofile[t], prose) :
          /\ primer_cache' = uc
          /\ \/ /\ sprimer' = [sprimer EXCEPT ![t] = PrimerContent(memories, uc)]
                /\ snow' = [snow EXCEPT ![t] = now]
                /\ spc' = [spc EXCEPT ![t] = "read"]
             \/ /\ spc' = [spc EXCEPT ![t] = "idle"]
                /\ UNCHANGED <<sprimer, snow>>
    /\ UNCHANGED <<now, queue_vars, memories, edges, pipe_vars, sprofile, sold,
                   tool_vars>>

ActivePrimers(mem) == {m \in ActiveMemories(mem) : m.category_path = PrimerPath}

\* The transaction's SELECT of the active primers.
synth_read(t) ==
    /\ spc[t] = "read"
    /\ sold' = [sold EXCEPT ![t] = {m.id : m \in ActivePrimers(memories)}]
    /\ spc' = [spc EXCEPT ![t] = "write"]
    /\ UNCHANGED <<now, queue_vars, store_vars, pipe_vars, sprofile, sprimer,
                   snow, tool_vars>>

\* An upsert that makes the row it finds active again.
UpsertPrimer_reactivating(mem, primer_id, content, t) ==
    IF HasId(mem, primer_id)
    THEN {IF m.id = primer_id
          THEN [m EXCEPT !.content = content, !.updated_at = t, !.supersedes_id = NoId,
                         !.archived_at = NoTime]
          ELSE m : m \in mem}
    ELSE mem \cup {NewRow(primer_id, content, PrimerPath, NoTtl, t)}

\* INSERT ... ON CONFLICT (id) DO UPDATE SET content, updated_at
UpsertPrimer(mem, primer_id, content, t) ==
    IF HasId(mem, primer_id)
    THEN {IF m.id = primer_id THEN [m EXCEPT !.content = content, !.updated_at = t]
          ELSE m : m \in mem}
    ELSE mem \cup {NewRow(primer_id, content, PrimerPath, NoTtl, t)}

\* Mark every other primer read as superseded, upsert the new one.
SupersedePrimers(mem, old_ids, primer_id, t) ==
    {IF m.id \in old_ids /\ m.id # primer_id
     THEN [m EXCEPT !.supersedes_id = primer_id, !.updated_at = t]
     ELSE m : m \in mem}

\* The transaction's writes, and its commit.
synth_write(t) ==
    /\ spc[t] = "write"
    /\ LET primer_id == generate_deterministic_id(sprimer[t]) IN
       memories' = UpsertPrimer(SupersedePrimers(memories, sold[t], primer_id, snow[t]),
                                primer_id, sprimer[t], snow[t])
    /\ spc' = [spc EXCEPT ![t] = "idle"]
    /\ sprimer' = [sprimer EXCEPT ![t] = <<>>]
    /\ snow' = [snow EXCEPT ![t] = NoTime]
    /\ sold' = [sold EXCEPT ![t] = {}]
    /\ UNCHANGED <<now, queue_vars, edges, primer_cache, pipe_vars, sprofile,
                   tool_vars>>

\* ------------------------------------------------------------------------
\* The read tools: search_memory, list_categories, fetch_document
\* (tools/search.py), export_memories (tools/admin_tools.py)
\* ------------------------------------------------------------------------
\* where_clause: active, and under category_path when one is given (<<>>
\* stands for no category_path).
ActiveUnder(mem, category_path) ==
    {m \in ActiveMemories(mem) :
        category_path = <<>> \/ IsDescendant(m.category_path, sanitize_ltree_path(category_path))}

\* lexical_search @@ websearch_to_tsquery(query): the texts of the model are
\* single words, a row matches when its word is the query's.
KeywordMatches(rows, query) == {m \in rows : Normalize(m.content) = Normalize(query)}

\* The rows of the combined CTE.  Its LIMIT never cuts: the stores of the
\* model hold fewer than limit rows.
SearchRows(mem, query, category_path, limit) ==
    LET rows == ActiveUnder(mem, category_path) IN
    TopBySimilarity(rows, embed(query), limit) \cup KeywordMatches(rows, query)

ReadResult(op, rows) ==
    [op |-> op, ids |-> {m.id : m \in rows},
     inactive |-> {m.id : m \in {x \in rows : ~IsActive(x)}},
     count |-> Cardinality(rows), out |-> <<>>]

Reading ==
    UNCHANGED <<now, queue_vars, edges, primer_cache, pipe_vars, synth_vars, toolcalls,
                ext_vars>>

search_memory(query, category_path) ==
    /\ ~IsBlank(query)
    /\ LET rows == SearchRows(memories, query, category_path, DEFAULT_SEARCH_LIMIT)
           ids == {m.id : m \in rows}
       IN /\ memories' = {IF m.id \in ids THEN [m EXCEPT !.last_accessed_at = now] ELSE m :
                            m \in memories}
          /\ lastread' = ReadResult("search_memory", rows)
    /\ Reading

list_categories ==
    /\ lastread' = ReadResult("list_categories", ActiveMemories(memories))
    /\ UNCHANGED memories
    /\ Reading

export_memories(category_path) ==
    /\ lastread' = ReadResult("export_memories", ActiveUnder(memories, category_path))
    /\ UNCHANGED memories
    /\ Reading

\* The recursive CTEs of fetch_document follow sequence_next edges between
\* active rows.  SequenceRel is the relation they walk: <<s, t>> for an
\* edge s -> t whose two rows are active.
SequenceRel(mem, edg) ==
    LET active == {m.id : m \in ActiveMemories(mem)}
    IN {<<e[1], e[2]>> : e \in {x \in edg : /\ x[3] = "sequence_next"
                                           /\ x[1] \in active
                                           /\ x[2] \in active}}

\* The pairs joined by a pair of r1 followed by a pair of r2.
Compose(r1, r2) ==
    UNION {{<<p[1], q[2]>> : q \in {y \in r2 : y[1] = p[2]}} : p \in r1}

\* The pairs joined by a walk of exactly k edges (by repeated squaring).
RECURSIVE Walks(_, _, _)
Walks(rel, nodes, k) ==
    IF k = 0 THEN {<<n, n>> : n \in nodes}
    ELSE IF rel = {} THEN {}
    ELSE IF k = 1 THEN rel
    ELSE LET even == UNION {Compose(half, half) : half \in {Walks(rel, nodes, k \div 2)}}
         IN IF k % 2 = 0 THEN even ELSE Compose(even, rel)

\* walks[k] are the pairs of active rows joined by k sequence_next edges,
\* for the depths 0 to 200 the CTEs go through (with no edge to follow
\* they end at depth 0); the depths no walk has are left out of the table.
WalkTable(mem, edg) ==
    UNION {{[k \in {j \in DOMAIN full : full[j] # {}} |-> full[k]] :
                full \in {[k \in 0..(IF rel = {} THEN 0 ELSE FETCH_MAX_DEPTH) |->
                             Walks(rel, nodes, k)]}} :
           rel \in {SequenceRel(mem, edg)},
           nodes \in {{m.id : m \in ActiveMemories(mem)}}}

\* CTE backward: a row comes at depth k when a walk of k edges leads from
\* it to the row asked for; CTE forward: when a walk of k edges leads from
\* the row asked for to it (UNION ALL: a row comes once per depth).
Depths(walks, memory_id, id, backward) ==
    {k \in DOMAIN walks :
        (IF backward THEN <<id, memory_id>> ELSE <<memory_id, id>>) \in walks[k]}

\* combined and deduped: sort_key is -depth for a backward row and depth
\* for a forward row of depth > 0; DISTINCT ON (id) ... ORDER BY id,
\* sort_key keeps the least sort_key of each id.  The result maps each id
\* that is returned to its sort_key.
SetMin(S) == CHOOSE x \in S : \A y \in S : x <= y

SortKeys(walks, mem, memory_id) ==
    LET nodes == {m.id : m \in ActiveMemories(mem)}
        keys(id) == {0 - k : k \in Depths(walks, memory_id, id, TRUE)}
                       \cup (Depths(walks, memory_id, id, FALSE) \ {0})
    IN IF memory_id \notin nodes THEN <<>>
       ELSE [id \in {n \in nodes : keys(n) # {}} |-> SetMin(keys(id))]

\* ORDER BY sort_key: the orders of the returned ids the database may
\* produce; rows with equal sort_key come in any order.
RECURSIVE OrderedBy(_, _)
OrderedBy(key, ids) ==
    IF ids = {} THEN {<<>>}
    ELSE UNION {{<<first>> \o rest : rest \in OrderedBy(key, ids \ {first})} :
                   first \in {i \in ids : \A o \in ids : key[i] <= key[o]}}

\* "\n\n".join(contents)
RECURSIVE JoinContents(_, _)
JoinContents(mem, order) ==
    IF order = <<>> THEN <<>>
    ELSE IF Len(order) = 1 THEN RowOf(mem, order[1]).content
    ELSE RowOf(mem, order[1]).content \o <<"\n\n">> \o JoinContents(mem, Tail(order))

\* What one call may return: the ids found, chunk_count = len(rows) and the
\* unified text, one result per order the database may produce.
FetchResults(mem, edg, memory_id) ==
    UNION {{[ids |-> DOMAIN key, count |-> Len(order),
             out |-> JoinContents(mem, order)] :
                order \in OrderedBy(key, DOMAIN key)} :
           key \in {SortKeys(walks, mem, memory_id) : walks \in WalkTable(mem, edg)}}

fetch_document(memory_id) ==
    /\ \E r \in FetchResults(memories, edges, memory_id) :
          lastread' = [op |-> "fetch_document",
                       ids |-> r.ids,
                       inactive |-> {id \in r.ids : ~IsActive(RowOf(memories, id))},
                       count |-> r.count,
                       out |-> r.out]
    /\ UNCHANGED memories
    /\ Reading

\* ------------------------------------------------------------------------
\* tools/context.py: trace_history
\* ------------------------------------------------------------------------
\* The recursive CTE "history" (UNION ALL): generation 0 is the row asked
\* for, generation g + 1 the rows whose supersedes_id is the id of a row of
\* generation g, as long as g < 100.  A row comes once per generation it
\* is reached in.  Ids are unique, so a row is in generation g exactly when
\* following supersedes_id g times from it, through existing rows, ends at
\* the row asked for: Generations walks that path once.
RECURSIVE Generations(_, _, _, _)
Generations(mem, memory_id, id, generation) ==
    (IF id = memory_id THEN {generation} ELSE {})
        \cup (IF generation < TRACE_MAX_GENERATION /\ HasId(mem, id)
              THEN Generations(mem, memory_id, RowOf(mem, id).supersedes_id,
                               generation + 1)
              ELSE {})

\* The result of the CTE as a set of <<generation, row>>.
History(mem, memory_id) ==
    IF ~HasId(mem, memory_id) THEN {}
    ELSE UNION {{<<g, m>> : g \in Generations(mem, memory_id, m.id, 0)} : m \in mem}

\* ORDER BY created_at ASC: the created_at column of the entries, sorted;
\* each value comes as often as there are entries with it.
RECURSIVE CreatedAtSorted(_, _)
CreatedAtSorted(entries, times) ==
    IF times = {} THEN <<>>
    ELSE LET t == CHOOSE x \in times : \A y \in times : x <= y
             n == Cardinality({e \in entries : e[2].created_at = t})
         IN [i \in 1..n |-> t] \o CreatedAtSorted(entries, times \ {t})

trace_history(memory_id) ==
    /\ LET entries == History(memories, memory_id)
       IN lastread' = [op |-> "trace_history",
                       ids |-> {e[2].id : e \in entries},
                       inactive |-> {},
                       count |-> Cardinality(entries),
                       out |-> CreatedAtSorted(entries, {e[2].created_at : e \in entries})]
    /\ UNCHANGED memories
    /\ Reading

\* ------------------------------------------------------------------------
\* The calls to the LLM provider (llm.py) and db.py's api_semaphore
\* ------------------------------------------------------------------------
\* inflight counts the provider calls in flight by call site: "segment"
\* (db.py:217), "section" (db.py:243-244), "arbitrate" (db.py:268-271),
\* "search" (tools/search.py:30), "update" (tools/crud.py:100) and "primer"
\* (tools/context.py:217-278).
api_idle == <<now, queue_vars, store_vars, pipe_vars, synth_vars, toolcalls, lastread,
              response, ctx_vars, retry, gather>>

InFlight ==
    inflight["segment"] + inflight["section"] + inflight["arbitrate"]
        + inflight["search"] + inflight["update"] + inflight["primer"]

\* process_and_insert_memory calls extract_semantic_sections; the worker
\* runs one pipeline call at a time.
api_segment_call ==
    /\ inflight["segment"] = 0
    /\ api_waiting = NoWaiting
    /\ api_semaphore = 0
    /\ inflight["section"] = 0 /\ inflight["arbitrate"] = 0
    /\ inflight' = [inflight EXCEPT !["segment"] = 1]
    /\ UNCHANGED <<api_waiting, api_semaphore, api_idle>>

\* The segmenter returns; the call creates its api_semaphore and gathers
\* one process_section task per section; n of them are not stored yet and
\* go on to embed their content.
api_segment_return(n) ==
    /\ inflight["segment"] = 1
    /\ inflight' = [inflight EXCEPT !["segment"] = 0]
    /\ api_semaphore' = 0
    /\ api_waiting' = [section |-> n, arbitrate |-> 0]
    /\ UNCHANGED api_idle

\* async with api_semaphore: a task enters when a permit is free and then
\* calls the provider.
api_section_acquire(site) ==
    /\ api_waiting[site] > 0
    /\ api_semaphore < MAX_CONCURRENT_API_CALLS
    /\ api_waiting' = [api_waiting EXCEPT ![site] = @ - 1]
    /\ api_semaphore' = api_semaphore + 1
    /\ inflight' = [inflight EXCEPT ![site] = @ + 1]
    /\ UNCHANGED api_idle

\* The call returns and the task leaves the semaphore; a section found in
\* conflict after its embed goes on to the arbiter.
api_section_release(site, conflict) ==
    /\ inflight[site] > 0
    /\ inflight' = [inflight EXCEPT ![site] = @ - 1]
    /\ api_semaphore' = api_semaphore - 1
    /\ api_waiting' = IF site = "section" /\ conflict
                      THEN [api_waiting EXCEPT !["arbitrate"] = @ + 1]
                      ELSE api_waiting
    /\ UNCHANGED api_idle

\* search_memory, update_memory and synthesize_system_primer call the
\* provider directly.
api_tool_call(site) ==
    /\ inflight[site] < MaxClientCalls
    /\ inflight' = [inflight EXCEPT ![site] = @ + 1]
    /\ UNCHANGED <<api_waiting, api_semaphore, api_idle>>

\* The call returns and the tool (or the synthesis) goes on to its end.
api_tool_return(site) ==
    /\ inflight[site] > 0
    /\ inflight' = [inflight EXCEPT ![site] = @ - 1]
    /\ response' = Succeeded(site)
    /\ UNCHANGED <<api_waiting, api_semaphore, now, queue_vars, store_vars, pipe_vars,
                   synth_vars, toolcalls, lastread, ctx_vars, retry, gather>>

\* ------------------------------------------------------------------------
\* utils.py: _with_retries
\* ------------------------------------------------------------------------
\* What one call of the wrapped function can come to: a result, or an
\* exception with or without a status_code.
CallOutcomes ==
    {[ok |-> TRUE, status_code |-> NoStatus, value |-> v] : v \in {"x", "y"}}
        \cup {[ok |-> FALSE, status_code |-> c, value |-> "none"] :
                c \in {NoStatus, 400, 401, 403, 500}}

\* RuntimeError(f"{label} retry failed")
RetryFailed == [ok |-> FALSE, status_code |-> NoStatus, value |-> "retry failed"]

\* Every exception is tried again.
_is_retryable_always(exc) == TRUE

_is_retryable(exc) ==
    IF exc.status_code # NoStatus THEN exc.status_code \notin {400, 401, 403} ELSE TRUE

retry_idle == <<now, queue_vars, store_vars, pipe_vars, synth_vars, toolcalls, lastread,
                response, ctx_vars, api_waiting, api_semaphore, inflight, gather>>

\* The function is entered; range(max_retries) may be empty.
_with_retries_enter(max_retries) ==
    /\ retry.pc \in {"idle", "returned", "raised"}
    /\ retry' = IF max_retries > 0
                THEN [NoRetry EXCEPT !.pc = "calling", !.max_retries = max_retries]
                ELSE [NoRetry EXCEPT !.pc = "raised", !.max_retries = max_retries,
                                     !.result = RetryFailed]
    /\ UNCHANGED retry_idle

\* result = await fn(): return it, or re-raise what is not retryable, or go
\* to sleep.
_with_retries_call(outcome) ==
    /\ retry.pc = "calling"
    /\ retry' = [retry EXCEPT
                    !.log = Append(@, outcome),
                    !.pc = IF outcome.ok THEN "returned"
                           ELSE IF ~_is_retryable(outcome) THEN "raised"
                           ELSE "sleeping",
                    !.result = IF outcome.ok \/ ~_is_retryable(outcome) THEN outcome
                               ELSE @]
    /\ UNCHANGED retry_idle

\* await asyncio.sleep(sleep_s), then the next attempt, or after the last
\* one: raise last_exc.
_with_retries_sleep ==
    /\ retry.pc = "sleeping"
    /\ retry' = [retry EXCEPT
                    !.sleeps = @ + 1,
                    !.attempt = @ + 1,
                    !.pc = IF retry.attempt + 1 < retry.max_retries THEN "calling"
                           ELSE "raised",
                    !.result = IF retry.attempt + 1 < retry.max_retries THEN @
                               ELSE retry.log[Len(retry.log)]]
    /\ UNCHANGED retry_idle

\* ------------------------------------------------------------------------
\* db.py: the section sub-tasks of one pipeline call (asyncio.gather), their
\* db_lock, and the connection the worker lends to the call
\* ------------------------------------------------------------------------
\* gather.pc[i] is the position of the sub-task of section i: "start"
\* (waiting for db_lock), "exists" (holding it, the exists-check in flight),
\* "embed", "lock2" (waiting for db_lock again), "near" (holding it, the
\* neighbour query in flight), "arbitrate", "done" (returned its result),
\* "failed" (raised).  gather.ops are the statements in flight on the
\* connection, <<0, "write">> being a statement of Step 4.
gather_idle == <<now, queue_vars, store_vars, pipe_vars, synth_vars, toolcalls, lastread,
                 response, ctx_vars, api_waiting, api_semaphore, inflight, retry>>

\* A lock that lets every task in.
LockFree_always(lock) == TRUE

\* asyncio.Lock: taken when no task holds it.
LockFree(lock) == lock = 0

SubTasks == 1..Len(gather.pc)

\* The worker acquires proc_conn and calls the pipeline: db_lock is created
\* and one process_section task per section is gathered.
gather_start(n) ==
    /\ gather.run = "idle"
    /\ gather' = [NoGather EXCEPT !.run = "gathering", !.conn = "acquired",
                                  !.pc = [i \in 1..n |-> "start"]]
    /\ UNCHANGED gather_idle

\* async with db_lock: the sub-task gets the lock and sends its query.
section_lock(i) ==
    /\ gather.pc[i] \in {"start", "lock2"}
    /\ LockFree(gather.db_lock)
    /\ LET kind == IF gather.pc[i] = "start" THEN "exists" ELSE "near" IN
       gather' = [gather EXCEPT !.pc[i] = kind, !.db_lock = i,
                                !.ops = @ \cup {<<i, kind>>}]
    /\ UNCHANGED gather_idle

\* The query is over and the lock released.  A stored chunk ends the
\* sub-task; otherwise it goes on to embed, and after the neighbour query
\* to its result or to the arbiter.  On a connection that is no longer the
\* call's the query may as well raise.
section_query_returns(i, found) ==
    /\ gather.pc[i] \in {"exists", "near"}
    /\ \E next \in (IF found THEN {"done"}
                    ELSE IF gather.pc[i] = "exists" THEN {"embed"} ELSE {"arbitrate"})
                   \cup (IF gather.conn = "acquired" THEN {} ELSE {"failed"}) :
          gather' = [gather EXCEPT !.pc[i] = next, !.db_lock = 0,
                                   !.ops = @ \ {<<i, gather.pc[i]>>}]
    /\ UNCHANGED gather_idle

\* async with api_semaphore: vec = await embed(chunk_content), which may
\* raise.
section_embed_returns(i, ok) ==
    /\ gather.pc[i] = "embed"
    /\ gather' = [gather EXCEPT !.pc[i] = IF ok THEN "lock2" ELSE "failed"]
    /\ UNCHANGED gather_idle

\* evaluate_conflict and the embed of the final text, which may raise.
section_arbitrate_returns(i, ok) ==
    /\ gather.pc[i] = "arbitrate"
    /\ gather' = [gather EXCEPT !.pc[i] = IF ok THEN "done" ELSE "failed"]
    /\ UNCHANGED gather_idle

\* asyncio.gather without return_exceptions: the first exception of a
\* sub-task is raised to the caller at once; the other sub-tasks are not
\* cancelled.  The exception leaves process_and_insert_memory and the
\* worker's `async with p.acquire() as proc_conn`, which releases the
\* connection.
gather_raises ==
    /\ gather.run = "gathering"
    /\ \E i \in SubTasks : gather.pc[i] = "failed"
    /\ gather' = [gather EXCEPT !.run = "raised", !.conn = "pooled"]
    /\ UNCHANGED gather_idle

\* Every sub-task returned: section_data is complete, Step 4 begins.
gather_returns ==
    /\ gather.run = "gathering"
    /\ \A i \in SubTasks : gather.pc[i] = "done"
    /\ gather' = [gather EXCEPT !.run = "persisting"]
    /\ UNCHANGED gather_idle

\* Step 4 awaits its statements one after the other; here one per section.
persist_write_sent ==
    /\ gather.run = "persisting"
    /\ gather.ops = {}
    /\ gather.written < Len(gather.pc)
    /\ gather' = [gather EXCEPT !.ops = {<<0, "write">>}]
    /\ UNCHANGED gather_idle

persist_write_returns ==
    /\ gather.run = "persisting"
    /\ <<0, "write">> \in gather.ops
    /\ gather' = [gather EXCEPT !.ops = {}, !.written = @ + 1]
    /\ UNCHANGED gather_idle

\* The pipeline returns and the worker releases the connection.
pipeline_returns ==
    /\ gather.run = "persisting"
    /\ gather.ops = {}
    /\ gather.written = Len(gather.pc)
    /\ gather' = [gather EXCEPT !.run = "returned", !.conn = "pooled"]
    /\ UNCHANGED gather_idle

\* ------------------------------------------------------------------------
\* tools_context.py: the context store tools
\* ------------------------------------------------------------------------
\* A stand-in for the characters of _VALID_KEY_RE: letters, digits, "_",
\* "-" and ".".
KeyChars == {"k", "j", "1", "_", "-", "."}

\* _validate_key: the error, or "none" for a valid key.
validate_key(key) ==
    IF key = <<>> THEN "key must be a non-empty string"
    ELSE IF Len(key) > CONTEXT_MAX_KEY_LENGTH THEN "key too long"
    ELSE IF \E i \in 1..Len(key) : key[i] \notin KeyChars THEN "key characters"
    ELSE "none"

ctx_idle == <<now, queue_vars, store_vars, pipe_vars, synth_vars, toolcalls, api_vars,
              ttl_last>>

\* A filter that lets every row through.
Live_always(c, t) == TRUE

\* WHERE ... expires_at > NOW()
Live(c, t) == c.expires_at > t

\* The rows a statement returned as a read result; out is the key asked
\* for, inactive (history) the returned keys whose rows were expired.
ContextRead(op, key, rows, t) ==
    [op |-> op, ids |-> {c.key : c \in rows},
     inactive |-> {c.key : c \in {x \in rows : ~(x.expires_at > t)}},
     count |-> Cardinality(rows), out |-> <<key>>]

\* INSERT ... ON CONFLICT (key) DO UPDATE SET value, scope, updated_at,
\* expires_at.
Upserted(ctx, key, value, scope, t, expires_at) ==
    IF \E c \in ctx : c.key = key
    THEN {IF c.key = key
          THEN [c EXCEPT !.value = value, !.scope = scope, !.updated_at = t,
                         !.expires_at = expires_at]
          ELSE c : c \in ctx}
    ELSE ctx \cup {[key |-> key, value |-> value, scope |-> scope, created_at |-> t,
                    updated_at |-> t, expires_at |-> expires_at]}

set_context(key, value, ttl_hours, scope) ==
    /\ UNCHANGED <<ctx_idle, lastread>>
    /\ IF validate_key(key) # "none"
       THEN /\ response' = Failed("set_context", validate_key(key))
            /\ UNCHANGED context_store
       ELSE IF IsBlank(value)
       THEN /\ response' = Failed("set_context", "value must be a non-empty string")
            /\ UNCHANGED context_store
       ELSE IF Len(value) > CONTEXT_MAX_VALUE_LENGTH
       THEN /\ response' = Failed("set_context", "value exceeds maximum length")
            /\ UNCHANGED context_store
       ELSE IF ttl_hours < 1
       THEN /\ response' = Failed("set_context", "ttl_hours must be a positive integer")
            /\ UNCHANGED context_store
       ELSE IF ttl_hours > CONTEXT_MAX_TTL_HOURS
       THEN /\ response' = Failed("set_context", "ttl_hours cannot exceed 720")
            /\ UNCHANGED context_store
       ELSE /\ context_store' = Upserted(context_store, key, value, scope, now,
                                         now + ttl_hours)
            /\ response' = Succeeded("set_context")

get_context(key) ==
    /\ UNCHANGED <<ctx_idle, context_store>>
    /\ IF validate_key(key) # "none"
       THEN /\ response' = Failed("get_context", validate_key(key))
            /\ lastread' = ContextRead("get_context", key, {}, now)
       ELSE LET rows == {c \in context_store : c.key = key /\ Live(c, now)}
            IN /\ lastread' = ContextRead("get_context", key, rows, now)
               /\ response' = IF rows = {} THEN Failed("get_context", "not_found")
                              ELSE Succeeded("get_context")

delete_context(key) ==
    /\ UNCHANGED <<ctx_idle, lastread>>
    /\ IF validate_key(key) # "none"
       THEN /\ response' = Failed("delete_context", validate_key(key))
            /\ UNCHANGED context_store
       ELSE /\ context_store' = {c \in context_store : c.key # key}
            /\ response' = Succeeded("delete_context")

\* scope = "" stands for no scope given.
list_context_keys(scope) ==
    /\ UNCHANGED <<ctx_idle, context_store>>
    /\ LET rows == {c \in context_store :
                       Live(c, now) /\ (scope # "" => c.scope = scope)}
       IN lastread' = ContextRead("list_context_keys", <<>>, rows, now)
    /\ response' = Succeeded("list_context_keys")

\* expires_at = expires_at + additional_hours, with no upper limit.
Extended_uncapped(expires_at, additional_hours, t) == expires_at + additional_hours

\* expires_at = LEAST(expires_at + additional_hours, NOW() + 720 hours)
Extended(expires_at, additional_hours, t) ==
    IF expires_at + additional_hours <= t + CONTEXT_MAX_TTL_HOURS
    THEN expires_at + additional_hours
    ELSE t + CONTEXT_MAX_TTL_HOURS

extend_context_ttl(key, additional_hours) ==
    /\ UNCHANGED ctx_idle
    /\ IF validate_key(key) # "none"
       THEN /\ response' = Failed("extend_context_ttl", validate_key(key))
            /\ lastread' = ContextRead("extend_context_ttl", key, {}, now)
            /\ UNCHANGED context_store
       ELSE IF additional_hours < 1
       THEN /\ response' = Failed("extend_context_ttl",
                                  "additional_hours must be a positive integer")
            /\ lastread' = ContextRead("extend_context_ttl", key, {}, now)
            /\ UNCHANGED context_store
       ELSE LET rows == {c \in context_store : c.key = key /\ Live(c, now)}
            IN /\ context_store' =
                     {IF c \in rows
                      THEN [c EXCEPT !.expires_at = Extended(c.expires_at,
                                                             additional_hours, now),
                                     !.updated_at = now]
                      ELSE c : c \in context_store}
               /\ lastread' = ContextRead("extend_context_ttl", key, rows, now)
               /\ response' = IF rows = {} THEN Failed("extend_context_ttl", "not_found")
                              ELSE Succeeded("extend_context_ttl")

\* ------------------------------------------------------------------------
\* tools/crud.py: recategorize_memory, bulk_move_category
\* ------------------------------------------------------------------------
\* One tool request at a time; its primer synthesis runs as the task "tool".
ToolIdle == spc["tool"] = "idle" /\ toolcalls < MaxToolCalls

\* UPDATE memories SET category_path = $1, updated_at = $2 WHERE id = $3
Recategorized(mem, ids, path, t) ==
    {IF m.id \in ids THEN [m EXCEPT !.category_path = path, !.updated_at = t] ELSE m :
        m \in mem}

\* A check that lets every row through.
AtPrimerPath_never(existing) == FALSE

\* existing["category_path"] == "reference.system.primer"
AtPrimerPath(existing) == existing.category_path = PrimerPath

\* Refused for an unknown id and for a row that is at the primer path now;
\* the new path is not looked at.  lastread is the row the SELECT found.
recategorize_memory(id, new_category_path) ==
    /\ ToolIdle
    /\ toolcalls' = toolcalls + 1
    /\ lastread' = ReadResult("recategorize_memory", {m \in memories : m.id = id})
    /\ LET safe_path == sanitize_ltree_path(new_category_path) IN
       IF ~HasId(memories, id)
       THEN /\ response' = Failed("recategorize_memory", "Memory not found.")
            /\ UNCHANGED <<memories, spc, sprofile>>
       ELSE IF AtPrimerPath(RowOf(memories, id))
       THEN /\ response' = Failed("recategorize_memory",
                                  "Cannot recategorize the System Primer")
            /\ UNCHANGED <<memories, spc, sprofile>>
       ELSE /\ memories' = Recategorized(memories, {id}, safe_path, now)
            /\ SynthCall("tool", TRUE)
            /\ response' = Succeeded("recategorize_memory")
    /\ UNCHANGED <<now, queue_vars, edges, primer_cache, pipe_vars, sprimer, snow,
                   sold, ctx_vars, api_vars>>

\* The rows bulk_move_category selects: active, under the old prefix, not at
\* the primer path.
BulkSelected(mem, safe_old) ==
    {m \in ActiveMemories(mem) :
        IsDescendant(m.category_path, safe_old) /\ m.category_path # PrimerPath}

\* new_full = sanitize_ltree_path(safe_new + old_full[len(safe_old):])
BulkNewPath(old_full, safe_old, safe_new) ==
    sanitize_ltree_path(safe_new \o SubSeq(old_full, Len(safe_old) + 1, Len(old_full)))

\* The UPDATEs of the loop (taken together) and the synthesis when a row
\* was moved.
bulk_move_category(old_path_prefix, new_path_prefix) ==
    /\ ToolIdle
    /\ toolcalls' = toolcalls + 1
    /\ LET safe_old == sanitize_ltree_path(old_path_prefix)
           safe_new == sanitize_ltree_path(new_path_prefix)
           rows == BulkSelected(memories, safe_old)
       IN /\ memories' = {IF m \in rows
                          THEN [m EXCEPT !.category_path =
                                            BulkNewPath(m.category_path, safe_old, safe_new),
                                         !.updated_at = now]
                          ELSE m : m \in memories}
          /\ IF rows # {} THEN SynthCall("tool", TRUE) ELSE UNCHANGED <<spc, sprofile>>
    /\ response' = Succeeded("bulk_move_category")
    /\ UNCHANGED <<now, queue_vars, edges, primer_cache, pipe_vars, sprimer, snow,
                   sold, lastread, ctx_vars, api_vars>>

\* ------------------------------------------------------------------------
\* tools/crud.py: delete_memory; tools/admin_tools.py: prune_history
\* ------------------------------------------------------------------------
\* A store whose edges outlive the memories they name.
OnDeleteCascade_none(edg, gone_ids) == edg

\* memory_edges: source_id, target_id REFERENCES memories(id) ON DELETE
\* CASCADE.  The edges left when the memories gone_ids are deleted.
OnDeleteCascade(edg, gone_ids) ==
    {e \in edg : e[1] \notin gone_ids /\ e[2] \notin gone_ids}

\* A recursive CTE with UNION: the ids reached from seen along rel, each
\* once.
RECURSIVE Reached(_, _)
Reached(rel, seen) ==
    LET next == seen \cup {e[2] : e \in {x \in rel : x[1] \in seen}} IN
    IF next = seen THEN seen ELSE Reached(rel, next)

\* chunk_chain: the memory, and what sequence_next edges reach from it
\* backward and forward.
ChunkChain(mem, edg, id) ==
    LET start == {m.id : m \in {x \in mem : x.id = id}}
        fwd == {<<e[1], e[2]>> : e \in {x \in edg : x[3] = "sequence_next"}}
        bwd == {<<e[2], e[1]>> : e \in fwd}
    IN Reached(bwd, start) \cup Reached(fwd, start)

\* DELETE FROM memories m USING chunk_chain c WHERE m.id = c.id, then the
\* primer synthesis when a row was deleted.
delete_memory(id) ==
    /\ ToolIdle
    /\ toolcalls' = toolcalls + 1
    /\ LET chain == ChunkChain(memories, edges, id)
           profile_changed == HasId(memories, id)
                              /\ is_profile_path(RowOf(memories, id).category_path)
       IN /\ memories' = {m \in memories : m.id \notin chain}
          /\ edges' = OnDeleteCascade(edges, chain)
          /\ IF chain # {} THEN SynthCall("tool", profile_changed)
             ELSE UNCHANGED <<spc, sprofile>>
    /\ response' = Succeeded("delete_memory")
    /\ UNCHANGED <<now, queue_vars, primer_cache, pipe_vars, sprimer, snow, sold,
                   lastread, ctx_vars, api_vars>>

\* supersedes_id IS NOT NULL AND updated_at < NOW() - INTERVAL '1 day' * $1
Prunable(mem, days, t) ==
    {m \in mem : m.supersedes_id # NoId /\ m.updated_at < t - days * HOURS_PER_DAY}

\* DELETE FROM memories WHERE ...; no primer synthesis follows.
prune_history(days_old) ==
    /\ toolcalls < MaxToolCalls
    /\ toolcalls' = toolcalls + 1
    /\ LET gone == Prunable(memories, days_old, now) IN
       /\ memories' = memories \ gone
       /\ edges' = OnDeleteCascade(edges, {m.id : m \in gone})
    /\ response' = Succeeded("prune_history")
    /\ UNCHANGED <<now, queue_vars, primer_cache, pipe_vars, synth_vars, lastread,
                   ctx_vars, api_vars>>

\* ------------------------------------------------------------------------
\* tools/crud.py: update_memory, update_memory_metadata;
\* tools/context.py: confirm_memory_validity.  (verify_after is not part of
\* the rows of the model; the statements below write the other columns.)
\* ------------------------------------------------------------------------
\* UPDATE memories SET content = $1, embedding, lexical_search,
\* updated_at = $3, verify_after WHERE id = $4
ContentUpdated(mem, id, new_content, t) ==
    {IF m.id = id THEN [m EXCEPT !.content = new_content, !.updated_at = t] ELSE m :
        m \in mem}

\* The row is looked up by id alone, inactive rows included.  embedded is
\* whether the embed call returned; its exception is caught and reported.
update_memory(id, new_content, embedded) ==
    /\ ToolIdle
    /\ toolcalls' = toolcalls + 1
    /\ IF new_content = <<>>
       THEN /\ response' = Failed("update_memory", "new_content must be a non-empty string")
            /\ UNCHANGED <<memories, spc, sprofile>>
       ELSE IF ~HasId(memories, id)
       THEN /\ response' = Failed("update_memory", "Memory not found.")
            /\ UNCHANGED <<memories, spc, sprofile>>
       ELSE IF ~embedded
       THEN /\ response' = Failed("update_memory", "exception")
            /\ UNCHANGED <<memories, spc, sprofile>>
       ELSE /\ memories' = ContentUpdated(memories, id, new_content, now)
            /\ SynthCall("tool", is_profile_path(RowOf(memories, id).category_path))
            /\ response' = Succeeded("update_memory")
    /\ UNCHANGED <<now, queue_vars, edges, primer_cache, pipe_vars, sprimer, snow,
                   sold, lastread, ctx_vars, api_vars>>

\* UPDATE memories SET metadata = metadata || $1, updated_at = $2
\* WHERE id = $3 AND supersedes_id IS NULL AND archived_at IS NULL
\* (ttl_days is the metadata key the rows of the model carry).
MetadataMerged(mem, id, ttl_days, t) ==
    {IF m.id = id /\ IsActive(m)
     THEN [m EXCEPT !.ttl_days = IF ttl_days = NoTtl THEN @ ELSE ttl_days,
                    !.updated_at = t]
     ELSE m : m \in mem}

\* NoTtl stands for metadata without the key ttl_days.
update_memory_metadata(id, ttl_days) ==
    /\ toolcalls < MaxToolCalls
    /\ toolcalls' = toolcalls + 1
    /\ IF ttl_days # NoTtl /\ ttl_days < 1
       THEN /\ response' = Failed("update_memory_metadata",
                                  "ttl_days must be a positive integer")
            /\ UNCHANGED memories
       ELSE IF ~HasId(ActiveMemories(memories), id)
       THEN /\ response' = Failed("update_memory_metadata",
                                  "Memory not found, is superseded, or is archived.")
            /\ UNCHANGED memories
       ELSE /\ memories' = MetadataMerged(memories, id, ttl_days, now)
            /\ response' = Succeeded("update_memory_metadata")
    /\ UNCHANGED <<now, queue_vars, edges, primer_cache, pipe_vars, synth_vars,
                   lastread, ctx_vars, api_vars>>

\* SELECT ... WHERE id = $1 AND supersedes_id IS NULL AND archived_at IS NULL,
\* then UPDATE memories SET verify_after = $1, updated_at = $2 WHERE id = $3
confirm_memory_validity(memory_id) ==
    /\ toolcalls < MaxToolCalls
    /\ toolcalls' = toolcalls + 1
    /\ IF ~HasId(ActiveMemories(memories), memory_id)
       THEN /\ response' = Failed("confirm_memory_validity",
                                  "Memory not found, is superseded, or is archived.")
            /\ UNCHANGED memories
       ELSE /\ memories' = {IF m.id = memory_id THEN [m EXCEPT !.updated_at = now] ELSE m :
                               m \in memories}
            /\ response' = Succeeded("confirm_memory_validity")
    /\ UNCHANGED <<now, queue_vars, edges, primer_cache, pipe_vars, synth_vars,
                   lastread, ctx_vars, api_vars>>

\* ------------------------------------------------------------------------
\* server.py: _ttl_daemon (the clock counts hours where the daemon runs)
\* ------------------------------------------------------------------------
\* A daemon that never archives.
SoftArchive_skip(mem, t) == mem

\* archived_at IS NULL AND ttl_days IS NOT NULL
\* AND NOW() > updated_at + ttl_days * INTERVAL '1 day'
Expired(m, t) ==
    /\ m.archived_at = NoTime
    /\ m.ttl_days # NoTtl
    /\ t > m.updated_at + m.ttl_days * HOURS_PER_DAY

\* UPDATE memories SET archived_at = NOW() WHERE ...
SoftArchive(mem, t) ==
    {IF Expired(m, t) THEN [m EXCEPT !.archived_at = t] ELSE m : m \in mem}

\* DELETE FROM memories WHERE archived_at IS NOT NULL
HardDeleted_archived(mem, t) == {m \in mem : m.archived_at # NoTime}

\* DELETE FROM memories WHERE archived_at < NOW() - INTERVAL '30 days'
HardDeleted(mem, t) ==
    {m \in mem : m.archived_at # NoTime
                 /\ m.archived_at < t - HARD_DELETE_DAYS * HOURS_PER_DAY}

\* DELETE FROM ingestion_staging WHERE status IN ('complete','failed') AND
\* created_at < NOW() - retention.  job_id is the index into jobs, so a
\* deleted row is kept as a tombstone with status "deleted".
StagingPurged(js, t) ==
    {j \in 1..Len(js) : /\ js[j].status \in {"complete", "failed"}
                        /\ js[j].created_at < t - STAGING_RETENTION_DAYS * HOURS_PER_DAY}

\* DELETE FROM context_store WHERE expires_at < NOW()
ContextPurged(ctx, t) == {c \in ctx : c.expires_at < t}

\* One tick of the daemon: the four statements, then the primer synthesis
\* when a memory or a staging row was touched.  Ticks are an hour apart.
ttl_daemon ==
    /\ wpc["w1"] # "stopped"
    /\ spc["ttl"] = "idle"
    /\ now > ttl_last
    /\ ttl_last' = now
    /\ LET soft == SoftArchive(memories, now)
           gone == HardDeleted(soft, now)
           gone_ids == {m.id : m \in gone}
           purged == StagingPurged(jobs, now)
       IN /\ memories' = soft \ gone
          /\ edges' = OnDeleteCascade(edges, gone_ids)
          /\ jobs' = [j \in 1..Len(jobs) |->
                        IF j \in purged THEN [jobs[j] EXCEPT !.status = "deleted"]
                        ELSE jobs[j]]
          /\ context_store' = context_store \ ContextPurged(context_store, now)
          /\ IF soft # memories \/ gone # {} \/ purged # {}
             THEN SynthCall("ttl", TRUE)
             ELSE UNCHANGED <<spc, sprofile>>
    /\ UNCHANGED <<now, wpc, wjob, wsel, crashes, primer_cache, pipe_vars, sprimer,
                   snow, sold, toolcalls, lastread, response, api_vars>>

\* The statements of a tick, in order: soft-archive, hard-delete, staging
\* purge, context purge.
DaemonStatements == 1..4

\* logger.error("TTL daemon error: ...")
DaemonError == Failed("_ttl_daemon", "TTL daemon error")

\* A tick in which the statement `failed` raises.  Each statement before it
\* ran on the connection outside any transaction block and is committed; the
\* statements after it and the primer synthesis are not reached; the
\* exception is logged and the loop goes on.
ttl_daemon_raises(failed) ==
    /\ wpc["w1"] # "stopped"
    /\ spc["ttl"] = "idle"
    /\ now > ttl_last
    /\ LET soft == IF failed > 1 THEN SoftArchive(memories, now) ELSE memories
           gone == IF failed > 2 THEN HardDeleted(soft, now) ELSE {}
           gone_ids == {m.id : m \in gone}
           purged == IF failed > 3 THEN StagingPurged(jobs, now) ELSE {}
       IN /\ memories' = soft \ gone
          /\ edges' = OnDeleteCascade(edges, gone_ids)
          /\ jobs' = [j \in 1..Len(jobs) |->
                        IF j \in purged THEN [jobs[j] EXCEPT !.status = "deleted"]
                        ELSE jobs[j]]
    /\ response' = DaemonError
    /\ UNCHANGED <<now, wpc, wjob, wsel, crashes, primer_cache, pipe_vars, synth_vars,
                   toolcalls, lastread, ctx_vars, api_vars>>

\* An hour, or many, pass.
Advance(hours) ==
    /\ now + hours <= MaxClockHours
    /\ now' = now + hours
    /\ UNCHANGED <<queue_vars, store_vars, pipe_vars, synth_vars, tool_vars>>

\* ------------------------------------------------------------------------
\* server.py: server_lifespan, and the process stopping
\* ------------------------------------------------------------------------
\* Startup: the background primer task and the worker task are created.
server_lifespan(w) ==
    /\ wpc[w] = "stopped"
    /\ wpc' = [wpc EXCEPT ![w] = "startup"]
    /\ SynthCall(BgTask(w), FALSE)
    /\ UNCHANGED <<now, jobs, wjob, wsel, crashes, store_vars, pipe_vars, sprimer,
                   snow, sold, tool_vars>>

\* The process of worker w stops: its tasks are gone, open transactions and
\* row locks with them; the tables stay as committed.
process_stop(w) ==
    /\ wpc[w] # "stopped"
    /\ crashes < MaxCrashes
    /\ crashes' = crashes + 1
    /\ wpc' = [wpc EXCEPT ![w] = "stopped"]
    /\ wjob' = [wjob EXCEPT ![w] = NoJob]
    /\ wsel' = [wsel EXCEPT ![w] = NoJob]
    /\ psections' = [psections EXCEPT ![w] = <<>>]
    /\ pdata' = [pdata EXCEPT ![w] = <<>>]
    /\ ploop' = [ploop EXCEPT ![w] = NoLoop]
    /\ perr' = [perr EXCEPT ![w] = NoErr]
    /\ spc' = [t \in Tasks |-> IF t \in {w, BgTask(w)} THEN "idle" ELSE spc[t]]
    /\ sprimer' = [t \in Tasks |-> IF t \in {w, BgTask(w)} THEN <<>> ELSE sprimer[t]]
    /\ sold' = [t \in Tasks |-> IF t \in {w, BgTask(w)} THEN {} ELSE sold[t]]
    /\ snow' = [t \in Tasks |-> IF t \in {w, BgTask(w)} THEN NoTime ELSE snow[t]]
    /\ UNCHANGED <<now, jobs, store_vars, hist_vars, sprofile, tool_vars>>

\* ------------------------------------------------------------------------
\* Specifications
\* ------------------------------------------------------------------------
\* The steps of the worker's polling loop, the pipeline included.
WorkerLoopStep(w, cats, prose, errlens) ==
    \/ ingestion_worker_claim_select(w)
    \/ ingestion_worker_claim_update(w)
    \/ pipeline_segment(w, cats)
    \/ pipeline_section(w, errlens)
    \/ pipeline_persist(w)
    \/ pipeline_no_sections(w)
    \/ synth_build(w, prose)
    \/ synth_read(w)
    \/ synth_write(w)
    \/ pipeline_return(w)
    \/ ingestion_worker_complete(w)
    \/ ingestion_worker_failed(w)

\* The steps of the worker task: the startup reset, then the loop.
WorkerStep(w, cats, prose, errlens) ==
    \/ ingestion_worker_reset(w)
    \/ WorkerLoopStep(w, cats, prose, errlens)

BgStep(w, prose) ==
    \/ synth_build(BgTask(w), prose)
    \/ synth_read(BgTask(w))
    \/ synth_write(BgTask(w))

\* One server process: memorize_context calls, the worker, the startup
\* primer task, the clock, and the process being stopped and started again.
\* The segmenter falls back to one reference.unknown section or returns no
\* section; a failed provider call raises a long message.
QueueDocs == {<<Ta>>}
QueueCats == {}
QueueProse == {}
QueueErrLens == {2500}

QueueStep ==
    \/ \E doc \in QueueDocs : Len(jobs) < MaxJobs /\ memorize_context(doc, NoTtl)
    \/ server_lifespan("w1")
    \/ WorkerStep("w1", QueueCats, QueueProse, QueueErrLens)
    \/ BgStep("w1", QueueProse)
    \/ process_stop("w1")

NextQueue == Tick \/ QueueStep

Spec == Init /\ [][NextQueue]_vars

\* The same process with the clock standing still (jobs of equal created_at
\* are claimed in any order).  The event loop keeps running the worker
\* task while it can take a step, and a stopped process is started again.
SpecFair ==
    /\ Init
    /\ [][QueueStep]_vars
    /\ WF_vars(WorkerStep("w1", QueueCats, QueueProse, QueueErrLens))
    /\ WF_vars(server_lifespan("w1"))

\* The state once the processes of the workers ws have started on an empty
\* database: their startup primer tasks are over (the store holds the primer
\* of the empty store) and their workers poll.
EmptyPrimer == PrimerContent({}, <<>>)

Started(ws) ==
    /\ now = 0
    /\ jobs = <<>>
    /\ wpc = [w \in Workers |-> IF w \in ws THEN "poll" ELSE "stopped"]
    /\ wjob = [w \in Workers |-> NoJob]
    /\ wsel = [w \in Workers |-> NoJob]
    /\ crashes = 0
    /\ memories = {NewRow(generate_deterministic_id(EmptyPrimer), EmptyPrimer,
                          PrimerPath, NoTtl, 0)}
    /\ edges = {}
    /\ primer_cache = <<>>
    /\ psections = [w \in Workers |-> <<>>]
    /\ pdata = [w \in Workers |-> <<>>]
    /\ ploop = [w \in Workers |-> NoLoop]
    /\ perr = [w \in Workers |-> NoErr]
    /\ suplog = <<>>
    /\ runlog = <<>>
    /\ spc = [t \in Tasks |-> "idle"]
    /\ sprofile = [t \in Tasks |-> FALSE]
    /\ sprimer = [t \in Tasks |-> <<>>]
    /\ snow = [t \in Tasks |-> NoTime]
    /\ sold = [t \in Tasks |-> {}]
    /\ toolcalls = 0
    /\ lastread = NoRead
    /\ response = NoResponse
    /\ context_store = {}
    /\ ttl_last = NoTime
    /\ api_waiting = NoWaiting
    /\ api_semaphore = 0
    /\ inflight = [c \in CallSites |-> 0]
    /\ retry = NoRetry
    /\ gather = NoGather

\* Two server processes on one database.
InitWorkers == Started(Workers)

NextWorkers ==
    \/ \E doc \in QueueDocs : Len(jobs) < MaxJobs /\ memorize_context(doc, NoTtl)
    \/ \E w \in Workers : WorkerLoopStep(w, QueueCats, QueueProse, QueueErrLens)

SpecWorkers == InitWorkers /\ [][NextWorkers]_vars

\* One started server process ingesting documents whose sections fall into
\* one category; the client sends a document when the jobs before it ended.
PipeDocs == {<<Ta, Td>>, <<Tc>>}
PipeCats == {<<"concepts">>}
PipeProse == {}
PipeErrLens == {2500}

PipeStep(docs) ==
    \/ \E doc \in docs :
          /\ Len(jobs) < MaxPipeJobs
          /\ \A j \in JobIds : jobs[j].status \in {"complete", "failed"}
          /\ memorize_context(doc, NoTtl)
    \/ WorkerLoopStep("w1", PipeCats, PipeProse, PipeErrLens)

InitPipe == Started({"w1"})

SpecPipe == InitPipe /\ [][PipeStep(PipeDocs)]_vars

\* Two server processes on one database, the second started while the
\* first is at work; no process stops.
NextRestart ==
    \/ \E doc \in QueueDocs : Len(jobs) < MaxJobs /\ memorize_context(doc, NoTtl)
    \/ WorkerLoopStep("w1", QueueCats, QueueProse, QueueErrLens)
    \/ server_lifespan("w2")
    \/ WorkerStep("w2", QueueCats, QueueProse, QueueErrLens)
    \/ BgStep("w2", QueueProse)

SpecRestart == InitPipe /\ [][NextRestart]_vars

\* The same process ingesting one-paragraph documents while the read tools
\* are called.
ReadDocs == {<<Ta>>, <<Tc>>}

ReadStep ==
    \/ search_memory(Ta, <<>>)
    \/ list_categories
    \/ export_memories(<<"concepts">>)
    \/ \E m \in memories : fetch_document(m.id)

NextRead == PipeStep(ReadDocs) \/ ReadStep

SpecRead == InitPipe /\ [][NextRead]_vars

\* The same process ingesting a document while the category tools are
\* called; the primer synthesis of a tool runs beside the worker's.
PrimerDocs == {<<Ta>>}
RecatPaths == {PrimerPath}
BulkMoves == {<<<<"concepts">>, <<"projects">>>>}

ToolStep ==
    \/ \E m \in memories : \E p \in RecatPaths : recategorize_memory(m.id, p)
    \/ \E mv \in BulkMoves : bulk_move_category(mv[1], mv[2])
    \/ synth_build("tool", PipeProse)
    \/ synth_read("tool")
    \/ synth_write("tool")

NextPrimer == PipeStep(PrimerDocs) \/ ToolStep

SpecPrimer == InitPipe /\ [][NextPrimer]_vars

\* The same process ingesting a one-section document and then a document
\* whose sections are a near copy of it, a revision of it and a new text.
ClassDocs == {<<Ta>>, <<Tb, Tc, Td>>}

SpecClassify == InitPipe /\ [][PipeStep(ClassDocs)]_vars

\* The same process ingesting a one-section document and then a document
\* of two sections that are both revisions of it.
Tca == <<"c", "a">>
SupersedeDocs == {<<Ta>>, <<Tc, Tca>>}

SpecSupersede == InitPipe /\ [][PipeStep(SupersedeDocs)]_vars

\* The same process ingesting one document of CHUNK_BATCH_SIZE + 1 sections
\* (one letter each), with writes that can fail.
BatchLetters == <<"f", "g", "h", "i", "j", "k", "l", "m", "n", "o", "q", "r">>
BatchDoc == [i \in 1..(CHUNK_BATCH_SIZE + 1) |-> <<BatchLetters[i]>>]

NextBatch ==
    \/ Len(jobs) = 0 /\ memorize_context(BatchDoc, NoTtl)
    \/ WorkerLoopStep("w1", PipeCats, PipeProse, PipeErrLens)
    \/ pipeline_persist_raises("w1", PipeErrLens)

SpecBatch == InitPipe /\ [][NextBatch]_vars

\* The same process ingesting a document the model files under paths of its
\* own choice, while a client moves memories to paths of its choice.
RootDocs == {<<Ta>>}
RootCats == {<<"User", "x">>, <<"Misc">>}
RootRecatPaths == {<<"User">>, <<"Misc", "x">>}
RootMoves == {<<<<"profile">>, <<"Misc">>>>, <<<<"Misc">>, <<"User">>>>}

NextRoots ==
    \/ \E doc \in RootDocs :
          /\ Len(jobs) < MaxPipeJobs
          /\ \A j \in JobIds : jobs[j].status \in {"complete", "failed"}
          /\ memorize_context(doc, NoTtl)
    \/ WorkerLoopStep("w1", RootCats, PipeProse, PipeErrLens)
    \/ \E m \in memories : \E p \in RootRecatPaths : recategorize_memory(m.id, p)
    \/ \E mv \in RootMoves : bulk_move_category(mv[1], mv[2])
    \/ synth_build("tool", PipeProse)
    \/ synth_read("tool")
    \/ synth_write("tool")

SpecRoots == InitPipe /\ [][NextRoots]_vars

\* The same process ingesting one-paragraph documents, the clock advancing
\* between two documents, while the history of a memory is traced.
NextHistory ==
    \/ \E doc \in ReadDocs :
          /\ Len(jobs) < MaxJobs
          /\ \A j \in JobIds : jobs[j].status \in {"complete", "failed"}
          /\ memorize_context(doc, NoTtl)
    \/ WorkerLoopStep("w1", PipeCats, PipeProse, PipeErrLens)
    \/ (\A j \in JobIds : jobs[j].status \in {"complete", "failed"}) /\ Tick
    \/ \E m \in memories : trace_history(m.id)

SpecHistory == InitPipe /\ [][NextHistory]_vars

\* The same process ingesting a two-paragraph document and a document that
\* revises its first paragraph and goes on with a new one, while documents
\* are fetched.
DocDocs == {<<Ta, Td>>, <<Tc, Te>>}

NextDoc ==
    \/ \E doc \in DocDocs :
          /\ Len(jobs) < MaxJobs
          /\ \A j \in JobIds : jobs[j].status \in {"complete", "failed"}
          /\ memorize_context(doc, NoTtl)
    \/ WorkerLoopStep("w1", PipeCats, PipeProse, PipeErrLens)
    \/ \E m \in memories : fetch_document(m.id)

SpecDoc == InitPipe /\ [][NextDoc]_vars

\* One server process: the worker's pipeline call and the tools calling the
\* LLM provider.
NextApi ==
    \/ api_segment_call
    \/ \E n \in 0..MaxSections : api_segment_return(n)
    \/ \E site \in {"section", "arbitrate"} : api_section_acquire(site)
    \/ \E site \in {"section", "arbitrate"} : \E conflict \in BOOLEAN :
          api_section_release(site, conflict)
    \/ \E site \in {"search", "update", "primer"} : api_tool_call(site)
    \/ \E site \in {"search", "update", "primer"} : api_tool_return(site)

SpecApi == InitPipe /\ [][NextApi]_vars

\* Runs of _with_retries with every limit up to the default, around calls
\* that return, fail or are refused.  The event loop resumes the coroutine
\* when its call or its sleep is over; a call ends (the client has a
\* timeout).
NextRetries ==
    \/ \E max_retries \in 0..OPENAI_MAX_RETRIES : _with_retries_enter(max_retries)
    \/ \E outcome \in CallOutcomes : _with_retries_call(outcome)
    \/ _with_retries_sleep

SpecRetries ==
    /\ InitPipe
    /\ [][NextRetries]_vars
    /\ WF_vars(\E outcome \in CallOutcomes : _with_retries_call(outcome))
    /\ WF_vars(_with_retries_sleep)

\* One pipeline call over up to GatherSections sections: its sub-tasks,
\* whose provider calls return or raise, then Step 4 or the exception.
GatherSections == 3

NextGather ==
    \/ \E n \in 1..GatherSections : gather_start(n)
    \/ \E i \in SubTasks : section_lock(i)
    \/ \E i \in SubTasks : \E found \in BOOLEAN : section_query_returns(i, found)
    \/ \E i \in SubTasks : \E ok \in BOOLEAN : section_embed_returns(i, ok)
    \/ \E i \in SubTasks : \E ok \in BOOLEAN : section_arbitrate_returns(i, ok)
    \/ gather_raises
    \/ gather_returns
    \/ persist_write_sent
    \/ persist_write_returns
    \/ pipeline_returns

SpecGather == InitPipe /\ [][NextGather]_vars

\* One server process whose clients use the context store while the clock
\* advances and the TTL daemon ticks.
CtxKeys == {<<"k">>, <<"j", " ">>}
CtxValues == {<<"v">>, <<" ">>}
CtxTtlHours == {0, 360, 720, 721}
CtxAddHours == {0, 360, 720}
CtxScopes == {"session", "plan"}

NextCtx ==
    \/ \E key \in CtxKeys : \E value \in CtxValues : \E ttl_hours \in CtxTtlHours :
       \E scope \in CtxScopes : set_context(key, value, ttl_hours, scope)
    \/ \E key \in CtxKeys : get_context(key)
    \/ \E key \in CtxKeys : delete_context(key)
    \/ \E scope \in CtxScopes \cup {""} : list_context_keys(scope)
    \/ \E key \in CtxKeys : \E additional_hours \in CtxAddHours :
          extend_context_ttl(key, additional_hours)
    \/ Advance(ClockJump)
    \/ ttl_daemon

SpecCtx == InitPipe /\ [][NextCtx]_vars

\* One server process whose client submits, when the jobs before ended,
\* documents and lifetimes of every kind: no text, a blank text, a text one
\* character too long, ttl_days = 0.
OverlongText == [i \in 1..(MAX_MEMORIZE_TEXT_LENGTH + 1) |-> "x"]
MemoDocs == {<<>>, <<<<" ">>>>, <<Ta>>, <<Tc>>, <<OverlongText>>}
MemoTtlDays == {NoTtl, 0, 1}

NextMemo ==
    \/ \E doc \in MemoDocs : \E ttl_days \in MemoTtlDays :
          /\ Len(jobs) < MaxJobs
          /\ \A j \in JobIds : jobs[j].status \in {"complete", "failed"}
          /\ memorize_context(doc, ttl_days)
    \/ WorkerLoopStep("w1", PipeCats, PipeProse, PipeErrLens)

SpecMemo == InitPipe /\ [][NextMemo]_vars

\* One started process ingesting a document with a TTL of 15 days while
\* the clock advances and the TTL daemon ticks.
TtlDocs == {<<Ta>>}
TtlDays == 15

DaemonStep ==
    \/ ttl_daemon
    \/ synth_build("ttl", PipeProse)
    \/ synth_read("ttl")
    \/ synth_write("ttl")

NextTtl ==
    \/ \E doc \in TtlDocs : Len(jobs) < MaxTtlJobs /\ memorize_context(doc, TtlDays)
    \/ WorkerLoopStep("w1", PipeCats, PipeProse, PipeErrLens)
    \/ Advance(ClockJump)
    \/ DaemonStep

SpecTtl == InitPipe /\ [][NextTtl]_vars

\* One started process ingesting a two-paragraph document and then a
\* revision of its first paragraph, both with a TTL of 15 days.  When the
\* server is quiet (no job under way, no primer synthesis running) a client
\* deletes memories or prunes the history, the TTL daemon ticks, and, the
\* documents once ingested, the clock advances by half its range.
EdgeDocs == <<<<Ta, Td>>, <<Tc>>>>
PruneDays == {0, TtlDays}

QueueIdle == \A j \in JobIds : jobs[j].status \in {"complete", "failed", "deleted"}

Quiet == QueueIdle /\ \A t \in Tasks : spc[t] = "idle"

NextEdges ==
    \/ /\ Len(jobs) < MaxJobs
       /\ QueueIdle
       /\ memorize_context(EdgeDocs[Min(Len(jobs) + 1, Len(EdgeDocs))], TtlDays)
    \/ WorkerLoopStep("w1", PipeCats, PipeProse, PipeErrLens)
    \/ Len(jobs) = MaxJobs /\ Quiet /\ Advance(MaxClockHours \div 2)
    \/ Quiet /\ ttl_daemon
    \/ synth_build("ttl", PipeProse)
    \/ synth_read("ttl")
    \/ synth_write("ttl")
    \/ Quiet /\ \E m \in memories : delete_memory(m.id)
    \/ Quiet /\ \E days_old \in PruneDays : prune_history(days_old)
    \/ synth_build("tool", PipeProse)
    \/ synth_read("tool")
    \/ synth_write("tool")

SpecEdges == InitPipe /\ [][NextEdges]_vars

\* One started process ingesting a document and then a document of two
\* revisions of it, both with a TTL of 15 days.  The documents once ingested
\* and the server quiet, the clock jumps to the end of its range, the TTL
\* daemon ticks, and a client corrects, annotates, confirms or recategorizes
\* one memory, active or not.
InactiveDocs == <<<<Ta>>, <<Tc, Tca>>>>
UpdateTexts == {Te}

Ingested == Len(jobs) = MaxJobs /\ Quiet

NextInactive ==
    \/ /\ Len(jobs) < MaxJobs
       /\ QueueIdle
       /\ memorize_context(InactiveDocs[Min(Len(jobs) + 1, Len(InactiveDocs))], TtlDays)
    \/ WorkerLoopStep("w1", PipeCats, PipeProse, PipeErrLens)
    \/ Ingested /\ Advance(MaxClockHours)
    \/ Ingested /\ ttl_daemon
    \/ synth_build("ttl", PipeProse)
    \/ synth_read("ttl")
    \/ synth_write("ttl")
    \/ Ingested /\ \E m \in memories : \E new_content \in UpdateTexts :
                      \E embedded \in BOOLEAN : update_memory(m.id, new_content, embedded)
    \/ Ingested /\ \E m \in memories : update_memory_metadata(m.id, TtlDays)
    \/ Ingested /\ \E m \in memories : confirm_memory_validity(m.id)
    \/ Ingested /\ \E m \in memories : \E p \in RecatPaths : recategorize_memory(m.id, p)
    \/ synth_build("tool", PipeProse)
    \/ synth_read("tool")
    \/ synth_write("tool")

SpecInactive == InitPipe /\ [][NextInactive]_vars

\* The same, with ticks in which a statement of the daemon raises.
NextTtlRaises ==
    \/ NextTtl
    \/ \E failed \in DaemonStatements : ttl_daemon_raises(failed)

SpecTtlRaises == InitPipe /\ [][NextTtlRaises]_vars

\* ------------------------------------------------------------------------
\* The staging queue and its worker
\* ------------------------------------------------------------------------
\* C1: with two workers executing the claim statement concurrently, a job is
\* claimed at most once while it is pending (claims counts the claims since
\* the job last became pending), and no two workers hold the same job_id.
C1_AtMostOnceClaim ==
    /\ \A j \in JobIds : jobs[j].claims <= 1
    /\ \A w \in Workers : \A o \in Workers \ {w} :
          wjob[w] # NoJob => wjob[o] # wjob[w]

\* One worker holds the row lock on a job, the other one skipped it and
\* locked the next job.
C1_Witness ==
    /\ wpc["w1"] = "locking"
    /\ wpc["w2"] = "locking"
    /\ wsel["w1"] # wsel["w2"]

\* The worker holds job j and its pipeline is running.
Running(j) == wjob["w1"] = j /\ wpc["w1"] = "eval"

\* A job left 'processing' by a process that stopped.
Orphan(j) == Len(jobs) >= j /\ jobs[j].status = "processing" /\ wpc["w1"] = "stopped"

\* In the polling loop the only 'processing' job is the one the worker holds.
NoStaleInLoop ==
    wpc["w1"] \notin {"stopped", "startup"} =>
        \A j \in JobIds : jobs[j].status = "processing" => wjob["w1"] = j

StatusMatchesRun ==
    \A j \in JobIds :
        /\ jobs[j].status = "complete" => jobs[j].last_run = "returned"
        /\ jobs[j].status = "failed" =>
              /\ jobs[j].last_run = "raised"
              /\ jobs[j].error # NoErr
              /\ jobs[j].error <= ERROR_MAX_CHARS

\* A worker step that leaves the except branch marks the job 'failed' with
\* the message cut to 1000 characters; a step that marks a job 'complete'
\* follows a run that returned.
MarksAfterRun ==
    \A j \in JobIds :
        /\ (wpc["w1"] = "ran_err" /\ wjob["w1"] = j /\ wpc'["w1"] = "poll") =>
              /\ jobs'[j].status = "failed"
              /\ jobs'[j].error = Min(perr["w1"], ERROR_MAX_CHARS)
        /\ (jobs[j].status # "complete" /\ jobs'[j].status = "complete") =>
              /\ wpc["w1"] = "ran_ok"
              /\ wjob["w1"] = j
              /\ jobs[j].last_run = "returned"

C5_ClaimsInOrder ==
    [][\A j \in JobIds :
          (jobs[j].status = "pending" /\ jobs'[j].status = "processing") =>
              \A k \in JobIds :
                  jobs[k].status = "pending" => jobs[j].created_at <= jobs[k].created_at]_vars

\* After a stop, the older of two pending jobs (reset by the startup) is
\* claimed again while the younger one waits.
C5_Witness ==
    /\ Len(jobs) = 2
    /\ crashes > 0
    /\ jobs[1].created_at < jobs[2].created_at
    /\ jobs[1].status = "processing"
    /\ jobs[1].runs >= 1
    /\ wpc["w1"] = "claimed"
    /\ jobs[2].status = "pending"

\* ------------------------------------------------------------------------
\* Supersession, deduplication and re-ingestion
\* ------------------------------------------------------------------------
\* C6: after a supersession of old by new, no edge touches old, every edge
\* that left or entered old before now leaves or enters new, and
\* old.supersedes_id = new.id.
C6_SupersessionRewires ==
    \A i \in 1..Len(suplog) :
        LET s == suplog[i] IN
        /\ \A e \in s.edges_after : e[1] # s.old /\ e[2] # s.old
        /\ \A e \in s.edges_before :
              /\ e[1] = s.old => <<s.new, e[2], e[3]>> \in s.edges_after
              /\ e[2] = s.old => <<e[1], s.new, e[3]>> \in s.edges_after
        /\ \A m \in s.rows_after : m.id = s.old => m.supersedes_id = s.new

\* C7: after every supersession the replacement is another record than the
\* old one and is active.
C7_ReplacementActive ==
    \A i \in 1..Len(suplog) :
        LET s == suplog[i] IN
        /\ s.new # s.old
        /\ \E m \in s.rows_after : m.id = s.new /\ IsActive(m)

\* C8: an inactive memory is never returned by a read tool, never selected
\* as nearest neighbour, and never makes a section a duplicate.
C8_InactiveNeverUsed ==
    /\ lastread.inactive = {}
    /\ \A i \in 1..Len(pdata["w1"]) :
          /\ pdata["w1"][i].near_active
          /\ pdata["w1"][i].of_active

\* C9: in every reachable state at most one memory at the primer path is
\* active, whatever the interleaving of the primer syntheses with
\* recategorize_memory and bulk_move_category.
C9_OneActivePrimer == Cardinality(ActivePrimers(memories)) <= 1

\* C10: when the pipeline ran twice in a row on the same text with the same
\* sections, the second run inserted no row and every section of it was a
\* duplicate by its deterministic id.
C10_SecondRunAddsNothing ==
    (Len(runlog) = 2 /\ runlog[1].text = runlog[2].text
        /\ runlog[1].sections = runlog[2].sections) =>
        /\ runlog[2].added = {}
        /\ \A i \in 1..Len(runlog[2].results) :
              /\ runlog[2].results[i].exists
              /\ runlog[2].results[i].duplicate_of =
                    generate_deterministic_id(runlog[2].sections[i].content)

\* ------------------------------------------------------------------------
\* The pipeline's result and its edges
\* ------------------------------------------------------------------------
\* C11: when process_and_insert_memory has returned first_id, that id is in
\* the store and is an active memory or the existing memory that the first
\* section duplicated.
C11_ReturnedIdResolves ==
    wpc["w1"] = "ran_ok" =>
        LET id == ploop["w1"].first_id IN
        /\ HasId(memories, id)
        /\ \/ IsActive(RowOf(memories, id))
           \/ pdata["w1"][1].exists /\ pdata["w1"][1].duplicate_of = id

\* The effective id of the i-th section of the running job.
EffectiveId(i) ==
    IF pdata["w1"][i].exists THEN pdata["w1"][i].duplicate_of ELSE pdata["w1"][i].id

\* i comes before j among the sections of the running job, and the edge e
\* goes from the effective id of i to that of j.
InSectionOrder(e) ==
    \E i \in 1..Len(pdata["w1"]) : \E j \in 1..Len(pdata["w1"]) :
        /\ i < j
        /\ EffectiveId(i) = e[1]
        /\ EffectiveId(j) = e[2]

\* C12: every sequence_next edge the sequence statement of a job inserted
\* goes from the effective id of a section to the effective id of a
\* section the segmenter returned later (the copies Step 4b makes of the
\* edges of a superseded memory are not meant).
C12_ChainFollowsSections == \A e \in ploop["w1"].chained : InSectionOrder(e)

\* C12 as stated: every sequence_next edge a job inserts, the redirected
\* copies of a supersession included, goes from the effective id of a
\* section to the effective id of a section the segmenter returned later.
C12_SequenceFollowsSections ==
    [][\A e \in edges' \ edges : e[3] = "sequence_next" => InSectionOrder(e)]_vars

\* A job inserted two sections and the edge from the first to the second.
C12_Witness ==
    /\ wpc["w1"] = "primer"
    /\ Len(pdata["w1"]) = 2
    /\ ~pdata["w1"][1].exists
    /\ ~pdata["w1"][2].exists
    /\ EffectiveId(1) # EffectiveId(2)
    /\ <<EffectiveId(1), EffectiveId(2), "sequence_next">> \in ploop["w1"].chained

NonDecreasing(seq) == \A i \in 1..Len(seq) : \A j \in 1..Len(seq) : i <= j => seq[i] <= seq[j]

\* C14: trace_history returns every record of the chain exactly once (as
\* many entries as records), with non-decreasing created_at.
C14_HistoryOncePerRecord ==
    lastread.op = "trace_history" =>
        /\ lastread.count = Cardinality(lastread.ids)
        /\ Len(lastread.out) = lastread.count
        /\ NonDecreasing(lastread.out)

\* C15: for any two active memories joined by a sequence_next edge,
\* fetch_document returns the same text and the same chunk_count whichever
\* of the two ids is supplied.
C15_SameDocumentFromAnyChunk ==
    \A p \in SequenceRel(memories, edges) :
        FetchResults(memories, edges, p[1]) = FetchResults(memories, edges, p[2])

\* ------------------------------------------------------------------------
\* The calls to the LLM provider
\* ------------------------------------------------------------------------
\* C16: at any moment the provider calls in flight (segment, embed and
\* arbitrate of the pipeline, search_memory, update_memory and primer
\* synthesis together) are at most MAX_CONCURRENT_API_CALLS.
C16_ProviderCallsCapped == InFlight <= MAX_CONCURRENT_API_CALLS

\* ------------------------------------------------------------------------
\* The context store
\* ------------------------------------------------------------------------
\* C17: after any set_context and extend_context_ttl calls every context
\* entry has expires_at <= (time of its last write) + 720 hours, and a
\* write never sets expires_at later than now + 720 hours.
C17_ExpiryWithinCap ==
    [][\A c \in context_store' :
          /\ c.expires_at <= c.updated_at + CONTEXT_MAX_TTL_HOURS
          /\ c \notin context_store =>
                c.updated_at = now /\ c.expires_at <= now + CONTEXT_MAX_TTL_HOURS]_vars

C17_Witness ==
    /\ response = Succeeded("extend_context_ttl")
    /\ \E c \in context_store :
          /\ c.created_at < now
          /\ c.updated_at = now
          /\ c.expires_at = now + CONTEXT_MAX_TTL_HOURS

\* The context entries whose expires_at is not after the current time.
ExpiredEntries == {c \in context_store : ~(c.expires_at > now)}

\* A step of the context tool that lastread' is the result of.
ContextCall(op) ==
    /\ now' = now
    /\ ttl_last' = ttl_last
    /\ response'.tool = op
    /\ lastread'.op = op

Acceptable(job) ==
    /\ ~IsBlank(FullText(job.raw_text))
    /\ Len(FullText(job.raw_text)) <= MAX_MEMORIZE_TEXT_LENGTH
    /\ job.ttl_days = NoTtl \/ job.ttl_days >= 1

\* C19: memorize_context with empty text, text longer than
\* MAX_MEMORIZE_TEXT_LENGTH or ttl_days < 1 returns ok = false and leaves the
\* staging queue unchanged; every accepted call adds exactly one job, with
\* status 'pending'.
C19_RefusedOrEnqueued ==
    [][/\ Len(jobs') # Len(jobs) =>
             /\ jobs' = Append(jobs, jobs'[Len(jobs')])
             /\ jobs'[Len(jobs')].status = "pending"
             /\ Acceptable(jobs'[Len(jobs')])
             /\ response'.tool = "memorize_context" /\ response'.ok
             /\ response'.job_id = Len(jobs')
       /\ (response' # response /\ response'.tool = "memorize_context") =>
             IF response'.ok THEN Len(jobs') = Len(jobs) + 1 ELSE jobs' = jobs]_vars

\* A call was accepted and a later one, with the overlong text, refused.
C19_Witness ==
    /\ Len(jobs) = 1
    /\ jobs[1].status = "complete"
    /\ response = Failed("memorize_context", "text exceeds maximum allowed length")

\* C20: recategorize_memory on a memory whose category_path is
\* 'reference.system.primer' returns an error and changes neither that
\* memory nor any other state; no primer synthesis is triggered.
C20_PrimerStaysPut ==
    [][(/\ toolcalls' = toolcalls + 1
        /\ lastread'.op = "recategorize_memory"
        /\ response'.tool = "recategorize_memory"
        /\ \E m \in memories : m.id \in lastread'.ids /\ m.category_path = PrimerPath) =>
          /\ response' = Failed("recategorize_memory", "Cannot recategorize the System Primer")
          /\ UNCHANGED <<now, queue_vars, store_vars, pipe_vars, synth_vars, ctx_vars,
                         api_vars>>]_vars

\* The call was refused for the active primer.
C20_Witness ==
    /\ response = Failed("recategorize_memory", "Cannot recategorize the System Primer")
    /\ lastread.op = "recategorize_memory"
    /\ \E m \in ActivePrimers(memories) : m.id \in lastread.ids

\* ------------------------------------------------------------------------
\* The taxonomy roots
\* ------------------------------------------------------------------------
\* The five L1 roots (the list run_diagnostics counts violations against).
L1Roots == {"profile", "projects", "organizations", "concepts", "reference"}

\* C21: every memory persisted by the pipeline, recategorize_memory or
\* bulk_move_category has a category_path whose first segment is one of
\* profile, projects, organizations, concepts, reference; a supplied first
\* segment 'user' is stored as 'profile'.
C21_RootIsEnumerated ==
    \A m \in memories :
        /\ m.category_path # <<>>
        /\ m.category_path[1] \in L1Roots

\* The part of C21 the sanitizer does keep: no stored path starts with
\* 'user'.
C21_UserRootRewritten ==
    \A m \in memories : m.category_path # <<>> /\ m.category_path[1] # "user"

\* ------------------------------------------------------------------------
\* The pipeline's classification and chaining of sections
\* ------------------------------------------------------------------------
\* A step in which the worker persisted a batch.
BatchPersisted ==
    /\ wpc["w1"] = "eval"
    /\ ploop'["w1"].batch_start > ploop["w1"].batch_start

\* C22: the id of the replacement record inserted for a section resolved
\* through the conflict band is freshly minted: it differs from the id of
\* the old record and from the id of every memory already in the store, and
\* does not depend on the arbitrated text.
C22_ReplacementIdIsFresh ==
    [][BatchPersisted =>
        \A i \in 1..Len(suplog') :
            /\ suplog'[i].new # suplog'[i].old
            /\ ~HasId(memories, suplog'[i].new)
            /\ \A m \in suplog'[i].rows_after :
                  m.id = suplog'[i].new => m.id # generate_deterministic_id(m.content)]_vars

\* C23: for consecutive sections of one job with different effective ids,
\* the edge (previous effective id, this effective id, sequence_next)
\* exists after the job, also when one of the two sections was a duplicate
\* of an existing memory, whose existing id then serves as its effective id
\* in the chain.
C23_ConsecutiveSectionsChained ==
    wpc["w1"] = "primer" =>
        \A i \in 1..(Len(pdata["w1"]) - 1) :
            EffectiveId(i) # EffectiveId(i + 1) =>
                SequenceEdge(EffectiveId(i), EffectiveId(i + 1)) \in edges

\* The same for two consecutive sections that were both inserted as new
\* memories (no duplicate, no supersession).
C23_InsertedSectionsChained ==
    wpc["w1"] = "primer" =>
        \A i \in 1..(Len(pdata["w1"]) - 1) :
            (/\ EffectiveId(i) # EffectiveId(i + 1)
             /\ \A k \in {i, i + 1} : ~pdata["w1"][k].exists
                                        /\ pdata["w1"][k].supersedes = NoId) =>
                SequenceEdge(EffectiveId(i), EffectiveId(i + 1)) \in edges

\* The greatest similarity among the rows of a set (0 for no row).
RECURSIVE MaxSimilarity(_, _)
MaxSimilarity(rows, vec) ==
    IF rows = {} THEN 0
    ELSE LET m == CHOOSE x \in rows : TRUE
             rest == rows \ {m}
             s == Similarity(embed(m.content), vec)
         IN IF rest = {} THEN s
            ELSE LET t == MaxSimilarity(rest, vec) IN IF s >= t THEN s ELSE t

\* What the three bands promise for the result r of a section against the
\* store mem.
Classified(mem, section, r) ==
    LET vec == embed(section.content)
        active == {m \in mem : m.supersedes_id = NoId /\ m.archived_at = NoTime
                                 /\ IsDescendant(m.category_path, section.category_path)}
        s == MaxSimilarity(active, vec)
        nearest == {m \in active : Similarity(embed(m.content), vec) = s}
    IN IF s > DUP_THRESHOLD
       THEN /\ r.exists
            /\ \E m \in nearest : r.duplicate_of = m.id
            /\ r.supersedes = NoId
       ELSE IF CONFLICT_THRESHOLD <= s
       THEN /\ ~r.exists
            /\ \E m \in nearest :
                  /\ r.supersedes = m.id
                  /\ r.chunk \in evaluate_conflict(m.content, section.content)
       ELSE /\ ~r.exists
            /\ r.id = generate_deterministic_id(section.content)
            /\ r.chunk = section.content
            /\ r.supersedes = NoId

\* C24: for a section whose deterministic id is not in the store, with s
\* the similarity of the nearest active neighbour in the same category
\* subtree (0 when there is none): s > DUP_THRESHOLD yields a duplicate of
\* the neighbour and no insertion; CONFLICT_THRESHOLD <= s <= DUP_THRESHOLD
\* yields arbitration and an insertion that supersedes the neighbour;
\* s < CONFLICT_THRESHOLD yields an insertion with id =
\* deterministic_id(content) and no supersession.
C24_SectionClassified ==
    [][\A i \in 1..Len(pdata["w1"]) :
        (/\ Len(pdata'["w1"]) = Len(pdata["w1"])
         /\ pdata["w1"][i].state = "todo"
         /\ pdata'["w1"][i].state = "done"
         /\ ~HasId(memories, generate_deterministic_id(psections["w1"][i].content))) =>
            Classified(memories, psections["w1"][i], pdata'["w1"][i])]_vars

\* One job had a section in each band: a duplicate of a neighbour with
\* another id, a revision that supersedes the neighbour, a new insertion.
C24_Witness ==
    /\ Len(pdata["w1"]) = 3
    /\ pdata["w1"][1].state = "done" /\ pdata["w1"][1].exists
    /\ pdata["w1"][1].duplicate_of # pdata["w1"][1].id
    /\ pdata["w1"][2].state = "done" /\ pdata["w1"][2].supersedes # NoId
    /\ pdata["w1"][3].state = "done" /\ ~pdata["w1"][3].exists
    /\ pdata["w1"][3].supersedes = NoId

\* ------------------------------------------------------------------------
\* The TTL daemon's tick
\* ------------------------------------------------------------------------
\* C25: the TTL daemon never hard-deletes a memory unless its archived_at is
\* more than 30 days in the past, so a memory archived in a tick is never
\* deleted in the same tick; and it never sets archived_at on a memory
\* without metadata.ttl_days or whose updated_at + ttl_days days has not
\* yet passed.
C25_DaemonOnlyTakesTheDue ==
    [][ttl_last' # ttl_last =>
          /\ \A m \in memories :
                ~HasId(memories', m.id) =>
                    /\ m.archived_at # NoTime
                    /\ m.archived_at + HARD_DELETE_DAYS * HOURS_PER_DAY < now
          /\ \A m \in memories : \A n \in memories' :
                (n.id = m.id /\ m.archived_at = NoTime /\ n.archived_at # NoTime) =>
                    /\ m.ttl_days # NoTtl
                    /\ m.updated_at + m.ttl_days * HOURS_PER_DAY < now]_vars

\* The last tick archived a memory and left it in the store, beside a
\* memory without ttl_days that it did not archive.
C25_Witness ==
    /\ \E m \in memories : m.ttl_days # NoTtl /\ m.archived_at = ttl_last
    /\ \E m \in memories : m.ttl_days = NoTtl /\ m.archived_at = NoTime

\* C26: the four maintenance steps of one TTL daemon tick (soft-archive,
\* hard-delete, staging purge, context purge) take effect atomically: if a
\* later step of the tick fails, the effects of the earlier steps of that
\* tick are not persisted.
C26_TickIsAtomic ==
    [][(\E failed \in DaemonStatements : ttl_daemon_raises(failed)) =>
          UNCHANGED <<memories, edges, jobs, context_store>>]_vars

\* ------------------------------------------------------------------------
\* The batches of the pipeline
\* ------------------------------------------------------------------------
\* A step in which a write of the batch being persisted raised.
BatchFailed ==
    /\ wpc["w1"] = "eval"
    /\ pdata["w1"] # <<>>
    /\ AllGathered("w1")
    /\ wpc'["w1"] = "ran_err"

C27_JobFailed ==
    /\ Len(jobs) = 1
    /\ jobs[1].status = "failed"
    /\ Cardinality({m \in memories : m.category_path = <<"concepts">>}) = CHUNK_BATCH_SIZE

\* ------------------------------------------------------------------------
\* The segmenter
\* ------------------------------------------------------------------------
\* A step in which the worker's pipeline called the segmenter.
SegmenterRan == wpc["w1"] = "claimed" /\ wpc'["w1"] = "eval"

\* The model answered with sections, every one of them too short.
OnlyShort(answer) ==
    /\ answer.failure = "none"
    /\ answer.sections # <<>>
    /\ \A i \in 1..Len(answer.sections) : answer.sections[i].length < MIN_SECTION_LENGTH

C29_FallbackIsTheWholeInput ==
    [][SegmenterRan =>
        LET text == jobs[wjob["w1"]].raw_text
            answers == ModelResponses(text, PipeCats)
        IN /\ \A answer \in answers :
                (answer.failure # "none" \/ answer.sections = <<>>) =>
                    extract_semantic_sections(text, answer) =
                        <<[content |-> FullText(text),
                           category_path |-> <<"reference", "unknown">>,
                           tags |-> <<>>, volatility_class |-> "low"]>>
           /\ psections'["w1"] \in {extract_semantic_sections(text, answer) :
                                        answer \in answers}
           /\ perr'["w1"] = NoErr]_vars

\* The pipeline goes on with the whole two-paragraph input as its one
\* section, filed under reference.unknown.
C29_Witness ==
    /\ wpc["w1"] = "eval"
    /\ Len(jobs[wjob["w1"]].raw_text) = 2
    /\ Len(psections["w1"]) = 1
    /\ psections["w1"][1].content = FullText(jobs[wjob["w1"]].raw_text)
    /\ psections["w1"][1].category_path = UnknownPath

\* ------------------------------------------------------------------------
\* The retry loop
\* ------------------------------------------------------------------------
\* The calls made so far.
Calls == Len(retry.log)

FailedRetryably(outcome) ==
    ~outcome.ok /\ outcome.status_code \notin {400, 401, 403}

\* C30: _with_retries invokes the wrapped call at most max_retries times,
\* returns the first successful result without further calls, re-raises at
\* once (no sleep, no further attempt) when an error carries status 400, 401
\* or 403, and raises the last error after max_retries failed attempts; it
\* always terminates.
C30_RetriesBounded ==
    /\ [](/\ Calls <= retry.max_retries
          /\ \A i \in 1..(Calls - 1) : FailedRetryably(retry.log[i])
          /\ (Calls > 0 /\ retry.log[Calls].ok) =>
                /\ retry.pc = "returned"
                /\ retry.result = retry.log[Calls]
                /\ retry.sleeps = Calls - 1
          /\ (Calls > 0 /\ retry.log[Calls].status_code \in {400, 401, 403}) =>
                /\ retry.pc = "raised"
                /\ retry.result = retry.log[Calls]
                /\ retry.sleeps = Calls - 1
          /\ retry.pc = "returned" => Calls > 0 /\ retry.log[Calls].ok
          /\ (retry.pc = "raised" /\ Calls > 0 /\ FailedRetryably(retry.log[Calls])) =>
                /\ Calls = retry.max_retries
                /\ retry.result = retry.log[Calls])
    /\ (retry.pc = "calling") ~> (retry.pc \in {"returned", "raised"})

\* A run with the default limit failed four times, slept four times and
\* returned the result of its fifth call.
C30_Witness ==
    /\ retry.pc = "returned"
    /\ retry.max_retries = OPENAI_MAX_RETRIES
    /\ Calls = OPENAI_MAX_RETRIES
    /\ retry.sleeps = OPENAI_MAX_RETRIES - 1
    /\ retry.result.value = "y"

\* A run with the default limit raised the error of its fifth call.
C30_Exhausted ==
    /\ retry.pc = "raised"
    /\ Calls = OPENAI_MAX_RETRIES
    /\ retry.result.status_code = 500

\* ------------------------------------------------------------------------
\* The profile_changed argument of the pipeline's primer synthesis
\* ------------------------------------------------------------------------
\* The step in which the pipeline's last batch commits and Step 5 calls
\* synthesize_system_primer.
SynthesizerCalled == wpc["w1"] = "eval" /\ wpc'["w1"] = "primer"

\* Some section under the root 'profile' was inserted by this run (its
\* result is neither "exists" nor a duplicate of a stored memory).
ProfileSectionInserted ==
    \E i \in 1..Len(pdata["w1"]) :
        /\ ~pdata["w1"][i].exists
        /\ is_profile_path(psections["w1"][i].category_path)

\* C31: at the end of a pipeline run the primer synthesizer is called with
\* profile_changed = true exactly when at least one section under the root
\* 'profile' was newly inserted in that run; when every profile section was
\* a duplicate it is called with profile_changed = false.
C31_ProfileChangedIffInserted ==
    [][SynthesizerCalled => (sprofile'["w1"] <=> ProfileSectionInserted)]_vars

\* The direction the code does keep: a run that inserted a profile section
\* calls the synthesizer with profile_changed = true.
C31_InsertedMeansChanged ==
    [][(SynthesizerCalled /\ ProfileSectionInserted) => sprofile'["w1"]]_vars

\* ------------------------------------------------------------------------
\* The edges table
\* ------------------------------------------------------------------------
\* The ids of the memories the pipeline runs on record inserted.
EverAdded == UNION {runlog[i].added : i \in 1..Len(runlog)}

\* C32: after any sequence of ingestions, supersessions, delete_memory,
\* prune_history and TTL hard-deletes, every edge's source and target are
\* ids of memories present in the store.  (memory_edges is a set of
\* triples: its primary key is the triple, and every INSERT into it is ON
\* CONFLICT DO NOTHING.)
C32_EdgesReferToMemories ==
    \A e \in edges : HasId(memories, e[1]) /\ HasId(memories, e[2])

\* An inserted memory has been deleted again and edges are left.
C32_Witness ==
    /\ edges # {}
    /\ \E id \in EverAdded : ~HasId(memories, id)
    /\ response.tool \in {"delete_memory", "prune_history"}

\* The same through the TTL daemon alone: no tool was called, the chained
\* memories of the first document are gone and no edge is left.
C32_HardDeleteWitness ==
    /\ toolcalls = 0
    /\ Len(runlog) > 0
    /\ Len(runlog[1].results) > 1
    /\ runlog[1].added # {}
    /\ \A id \in runlog[1].added : ~HasId(memories, id)
    /\ edges = {}

\* ------------------------------------------------------------------------
\* The connection of a pipeline call
\* ------------------------------------------------------------------------
\* C33: during a pipeline run at most one store operation is in flight on
\* the job's connection at any time: the exists-checks and neighbour
\* lookups of concurrent section sub-tasks never overlap each other, and no
\* Step-3 read overlaps a Step-4 write of the same job.
C33_OneOperationInFlight ==
    gather.run \in {"gathering", "persisting"} =>
        /\ Cardinality(gather.ops) <= 1
        /\ <<0, "write">> \in gather.ops =>
              \A i \in SubTasks : gather.pc[i] = "done"
        /\ \A op \in gather.ops : op[1] # 0 => gather.db_lock = op[1]

\* A neighbour lookup is in flight while another sub-task waits for the
\* lock to send its exists-check.
C33_Witness ==
    /\ gather.run = "gathering"
    /\ \E i \in SubTasks : \E j \in SubTasks :
          /\ <<i, "near">> \in gather.ops
          /\ gather.pc[j] = "start"

\* The same at Step 4: a write is in flight after three sub-tasks returned.
C33_WriteWitness ==
    /\ gather.run = "persisting"
    /\ Len(gather.pc) = GatherSections
    /\ <<0, "write">> \in gather.ops

\* C34: when process_and_insert_memory returns or raises (for example
\* because one section's embed call failed), no section sub-task of that
\* run is still running or will later issue a query on the job's store
\* connection, which the worker releases back to the pool at that point.
C34_NoSubTaskOutlivesTheCall ==
    gather.run \in {"returned", "raised"} =>
        /\ \A i \in SubTasks : gather.pc[i] \in {"done", "failed"}
        /\ gather.ops = {}

\* The half that holds: a call that returns leaves no sub-task behind.
C34_ReturnLeavesNoSubTask ==
    gather.run = "returned" =>
        /\ \A i \in SubTasks : gather.pc[i] = "done"
        /\ gather.ops = {}

\* ------------------------------------------------------------------------
\* The startup reset beside a running worker
\* ------------------------------------------------------------------------
\* C35: a job that a running worker has claimed and is executing is never
\* reset to 'pending' and never executed concurrently by another worker; in
\* particular the startup reset of a second worker started while the first
\* is mid-job does not cause a second execution of that job.
C35_ClaimedJobStaysClaimed ==
    /\ \A w \in Workers :
          wjob[w] # NoJob =>
              /\ jobs[wjob[w]].status = "processing"
              /\ \A o \in Workers \ {w} : wjob[o] # wjob[w]
    /\ \A j \in JobIds : jobs[j].runs <= 1

\* ------------------------------------------------------------------------
\* The life of a staging row
\* ------------------------------------------------------------------------
\* The status changes of the claim statement, the worker's two final
\* UPDATEs, the startup reset and the staging purge (a purged row is kept
\* with status "deleted").
StatusChanges ==
    {<<"pending", "processing">>, <<"processing", "complete">>,
     <<"processing", "failed">>, <<"processing", "pending">>,
     <<"complete", "deleted">>, <<"failed", "deleted">>}

\* C36: a job's status only ever changes pending->processing (claim),
\* processing->complete, processing->failed, or processing->pending
\* (startup reset); 'complete' and 'failed' are absorbing, so a finished job
\* is never claimed or run again and its status is only removed by the
\* staging purge.
C36_StatusOnlyMovesForward ==
    [][\A j \in JobIds :
          /\ jobs'[j].status # jobs[j].status =>
                <<jobs[j].status, jobs'[j].status>> \in StatusChanges
          /\ jobs[j].status \in {"complete", "failed"} =>
                /\ jobs'[j].runs = jobs[j].runs
                /\ jobs'[j].claims = jobs[j].claims]_vars

\* ------------------------------------------------------------------------
\* The supersession pointers
\* ------------------------------------------------------------------------
\* C37: each memory is superseded at most once: once a memory's
\* supersedes_id is non-null no later operation overwrites it with a
\* different id, and two sections of the same job that selected the same
\* nearest neighbour do not both supersede it (leaving two active
\* replacements of one old record).
C37_SupersededAtMostOnce ==
    [][/\ \A m \in memories : \A n \in memories' :
             (n.id = m.id /\ m.supersedes_id # NoId) =>
                 n.supersedes_id = m.supersedes_id
       /\ \A i \in 1..Len(suplog') : \A j \in 1..Len(suplog') :
             suplog'[i].old = suplog'[j].old => suplog'[i].new = suplog'[j].new]_vars

\* The same, leaving aside replacements that carry the id of the record
\* they replace.
C37_TwoDistinctReplacements ==
    [][\A i \in 1..Len(suplog') : \A j \in 1..Len(suplog') :
          (/\ suplog'[i].old = suplog'[j].old
           /\ suplog'[i].new # suplog'[i].old
           /\ suplog'[j].new # suplog'[j].old) => suplog'[i].new = suplog'[j].new]_vars

\* The id a memory's supersedes_id points to (NoId for none, or for an id
\* that is not in the store).
Successor(mem, id) ==
    IF HasId(mem, id) THEN RowOf(mem, id).supersedes_id ELSE NoId

\* Following supersedes_id from id for up to k steps comes to start.
RECURSIVE ReturnsTo(_, _, _, _)
ReturnsTo(mem, start, id, k) ==
    /\ k > 0
    /\ Successor(mem, id) # NoId
    /\ \/ Successor(mem, id) = start
       \/ ReturnsTo(mem, start, Successor(mem, id), k - 1)

\* C38: the supersedes_id pointers never form a cycle: no memory has
\* supersedes_id equal to its own id, and following supersedes_id from any
\* memory never returns to a memory already visited, after any sequence of
\* pipeline supersessions and primer syntheses.
C38_NoSupersessionCycle ==
    \A m \in memories : ~ReturnsTo(memories, m.id, m.id, Cardinality(memories))

\* The same for cycles through more than one memory.
C38_NoLongerCycle ==
    \A m \in memories :
        m.supersedes_id # m.id => ~ReturnsTo(memories, m.id, m.id, Cardinality(memories))

\* ------------------------------------------------------------------------
\* The primer after a synthesis
\* ------------------------------------------------------------------------
\* C39: whenever the transaction of synthesize_system_primer commits,
\* exactly one active memory exists at 'reference.system.primer', its id is
\* deterministic_id(primer text) and its content is the newly built primer
\* text, also when that id already belongs to a primer that was superseded
\* earlier.
C39_PrimerActiveAfterCommit ==
    [][\A t \in Tasks :
          synth_write(t) =>
              /\ Cardinality(ActivePrimers(memories')) = 1
              /\ \A m \in ActivePrimers(memories') :
                    /\ m.id = generate_deterministic_id(sprimer[t])
                    /\ m.content = sprimer[t]]_vars

\* What the upsert does establish: the row with the id of the primer text
\* is in the store and carries that text.
C39_PrimerRowWritten ==
    [][\A t \in Tasks :
          synth_write(t) =>
              \E m \in memories' :
                  /\ m.id = generate_deterministic_id(sprimer[t])
                  /\ m.content = sprimer[t]
                  /\ m.category_path = PrimerPath]_vars

\* C39, without any other writer in between: a synthesis that commits while
\* the active primers are still exactly those its SELECT returned leaves
\* exactly one active primer, with the id and the content of the new text.
C39_PrimerActiveAfterSerialCommit ==
    [][\A t \in Tasks :
          (synth_write(t) /\ sold[t] = {m.id : m \in ActivePrimers(memories)}) =>
              /\ Cardinality(ActivePrimers(memories')) = 1
              /\ \A m \in ActivePrimers(memories') :
                    /\ m.id = generate_deterministic_id(sprimer[t])
                    /\ m.content = sprimer[t]]_vars

\* ------------------------------------------------------------------------
\* Inactive rows
\* ------------------------------------------------------------------------
\* C40: becoming inactive is permanent: no operation (pipeline upsert on an
\* id conflict, update_memory, update_memory_metadata,
\* confirm_memory_validity, recategorize, primer synthesis, TTL daemon) ever
\* sets a non-null archived_at or a non-null supersedes_id back to null: a
\* row that has one of them set and is still in the table after a step has
\* it set after the step.
C40_InactiveIsPermanent ==
    [][\A m \in memories : \A n \in memories' :
          n.id = m.id =>
              /\ m.archived_at # NoTime => n.archived_at # NoTime
              /\ m.supersedes_id # NoId => n.supersedes_id # NoId]_vars

\* A superseded memory that update_memory rewrote: its content is the
\* corrected text and it is superseded still.
C40_Witness ==
    \E m \in memories :
        /\ m.supersedes_id # NoId
        /\ m.category_path # PrimerPath
        /\ m.content \in UpdateTexts

\* An archived memory that recategorize_memory moved to the primer path.
C40_ArchivedRecategorized ==
    \E m \in memories :
        /\ m.archived_at # NoTime
        /\ m.category_path = PrimerPath
        /\ m.ttl_days # NoTtl

\* A primer text that came back: the primer synthesis wrote the row of a
\* superseded primer, and that row is superseded still.
C40_SupersededPrimerRewritten ==
    \E m \in memories : \E n \in memories :
        /\ m.id # n.id
        /\ m.category_path = PrimerPath
        /\ m.supersedes_id = n.id
        /\ n.supersedes_id = m.id
        /\ m.updated_at > n.updated_at

====
